---- MODULE Spec2Model ----
(***************************************************************************)
(* A model of the Agentic Discord bot's function-call pipeline:            *)
(*   - FilterManager (warning ledger and filter settings, persisted),      *)
(*   - ModerationService (preflight, resolution and platform mutations),   *)
(*   - FunctionExecutor.handleFunctionCall (dispatch, batching).           *)
(* Every operation is an async function of the program; a task of the      *)
(* model is one running invocation and its pc is the await it is          *)
(* suspended at.  What the platform answers at an await is chosen          *)
(* nondeterministically when the await completes.                          *)
(***************************************************************************)
EXTENDS Integers, Sequences, FiniteSets, TLC

VARIABLES
    settings,   \* FilterManager.settings : guildId -> FilterSettings
    disk,       \* data/filterSettings.json, as last written
    now,        \* Date.now(), in milliseconds
    task,       \* the running invocation: its pc, arguments, locals, result
    hist,       \* history: counts produced by the increments since the last reset
    tfail       \* history: a timeout of the escalation was rejected since then

vars == <<settings, disk, now, task, hist, tfail>>

(***************************************************************************)
(* Bounds of the model.                                                    *)
(***************************************************************************)
MaxTicks == 4       \* the clock advances at most this many half windows
MaxCount == 5       \* no warning is started on a record whose count is this

(***************************************************************************)
(* Strings.  TLC treats a string as the sequence of its characters for     *)
(* Len, Head, Tail, SubSeq and \o.                                         *)
(***************************************************************************)
Digits == {"0", "1", "2", "3", "4", "5", "6", "7", "8", "9"}

RECURSIVE IsDigits(_)
\* /^\d+$/ : one or more digits and nothing else
IsDigits(s) ==
    /\ s # ""
    /\ Head(s) \in Digits
    /\ (Tail(s) = "" \/ IsDigits(Tail(s)))

DigitVal(c) ==
    CASE c = "0" -> 0 [] c = "1" -> 1 [] c = "2" -> 2 [] c = "3" -> 3
      [] c = "4" -> 4 [] c = "5" -> 5 [] c = "6" -> 6 [] c = "7" -> 7
      [] c = "8" -> 8 [] c = "9" -> 9

RECURSIVE DigitsVal(_, _)
\* the value of a run of digits, most significant first
DigitsVal(s, acc) ==
    IF s = "" THEN acc ELSE DigitsVal(Tail(s), 10 * acc + DigitVal(Head(s)))

\* String.prototype.startsWith
StartsWith(s, p) == Len(s) >= Len(p) /\ SubSeq(s, 1, Len(p)) = p

RECURSIVE IndexOf(_, _, _)
\* the first position >= i at which sub occurs in s, 0 when there is none
IndexOf(s, sub, i) ==
    IF i + Len(sub) - 1 > Len(s) THEN 0
    ELSE IF SubSeq(s, i, i + Len(sub) - 1) = sub THEN i
    ELSE IndexOf(s, sub, i + 1)

\* String.prototype.includes
Includes(s, sub) == IndexOf(s, sub, 1) # 0

\* the lower case of the upper-case letters
Lowers ==
    [c \in {"A", "B", "C", "D", "E", "F", "G", "H", "I", "J", "K", "L", "M", "N",
            "O", "P", "Q", "R", "S", "T", "U", "V", "W", "X", "Y", "Z"} |->
        CASE c = "A" -> "a" [] c = "B" -> "b" [] c = "C" -> "c" [] c = "D" -> "d"
          [] c = "E" -> "e" [] c = "F" -> "f" [] c = "G" -> "g" [] c = "H" -> "h"
          [] c = "I" -> "i" [] c = "J" -> "j" [] c = "K" -> "k" [] c = "L" -> "l"
          [] c = "M" -> "m" [] c = "N" -> "n" [] c = "O" -> "o" [] c = "P" -> "p"
          [] c = "Q" -> "q" [] c = "R" -> "r" [] c = "S" -> "s" [] c = "T" -> "t"
          [] c = "U" -> "u" [] c = "V" -> "v" [] c = "W" -> "w" [] c = "X" -> "x"
          [] c = "Y" -> "y" [] c = "Z" -> "z"]

LowerChar(c) == IF c \in DOMAIN Lowers THEN Lowers[c] ELSE c

RECURSIVE ToLower(_)
\* String.prototype.toLowerCase
ToLower(s) == IF s = "" THEN "" ELSE LowerChar(Head(s)) \o ToLower(Tail(s))

RECURSIVE Strip(_, _)
\* s.replace(/[...]/g, '') for the characters of the set cs
Strip(s, cs) ==
    IF s = "" THEN ""
    ELSE IF Head(s) \in cs THEN Strip(Tail(s), cs)
    ELSE Head(s) \o Strip(Tail(s), cs)

RECURSIVE StripLeading(_, _)
\* s.replace(/^c+/, '')
StripLeading(s, c) ==
    IF s # "" /\ Head(s) = c THEN StripLeading(Tail(s), c) ELSE s

RECURSIVE DigitRun(_)
\* the longest run of digits s begins with
DigitRun(s) ==
    IF s # "" /\ Head(s) \in Digits THEN Head(s) \o DigitRun(Tail(s)) ELSE ""

(***************************************************************************)
(* Values of the untyped argument bag (Record<string, any>) and the parts  *)
(* of JavaScript's coercions the executor relies on.  NaN is a number of   *)
(* its own, outside the range of the model's integers.                     *)
(***************************************************************************)
NaN == 0 - 999999999

Undefined == [t |-> "undefined", s |-> "", n |-> 0]
Str(x) == [t |-> "string", s |-> x, n |-> 0]
Num(k) == [t |-> "number", s |-> "", n |-> k]
Bool(b) == [t |-> "boolean", s |-> "", n |-> IF b THEN 1 ELSE 0]

\* the test of a value in a condition: if (v), v || d, v ? a : b
Truthy(v) ==
    CASE v.t = "string" -> v.s # ""
      [] v.t = "number" -> v.n # 0 /\ v.n # NaN
      [] v.t = "boolean" -> v.n = 1
      [] OTHER -> FALSE

\* a template literal's ${v}
Show(v) ==
    CASE v.t = "string" -> v.s
      [] v.t = "number" -> IF v.n = NaN THEN "NaN" ELSE ToString(v.n)
      [] v.t = "boolean" -> IF v.n = 1 THEN "true" ELSE "false"
      [] OTHER -> "undefined"

\* parseInt of a string: leading blanks, a sign, then digits
ParseIntText(s) ==
    LET body == StripLeading(s, " ")
        neg == body # "" /\ Head(body) = "-"
        signed == body # "" /\ Head(body) \in {"-", "+"}
        run == DigitRun(IF signed THEN Tail(body) ELSE body)
    IN  IF run = "" THEN NaN
        ELSE IF neg THEN 0 - DigitsVal(run, 0) ELSE DigitsVal(run, 0)

\* parseInt(v): the value is turned into a string first
ParseInt(v) == ParseIntText(Show(v))

\* Number(v) for the values the model draws, as * and Math.min apply it
ToNumber(v) ==
    CASE v.t = "number" -> v.n
      [] v.t = "boolean" -> v.n
      [] v.t = "string" ->
            IF v.s = "" THEN 0
            ELSE IF IsDigits(v.s) THEN DigitsVal(v.s, 0)
            ELSE IF Head(v.s) = "-" /\ IsDigits(Tail(v.s))
            THEN 0 - DigitsVal(Tail(v.s), 0)
            ELSE NaN
      [] OTHER -> NaN

Times(a, b) == IF a = NaN \/ b = NaN THEN NaN ELSE a * b

\* Math.min and Math.max of two numbers
MathMin(a, b) == IF a = NaN \/ b = NaN THEN NaN ELSE IF a < b THEN a ELSE b
MathMax(a, b) == IF a = NaN \/ b = NaN THEN NaN ELSE IF a > b THEN a ELSE b

(***************************************************************************)
(* FilterManager: constants and the settings document.                     *)
(***************************************************************************)
WARNING_THRESHOLD == 3
WARNING_RESET_TIME == 24 * 60 * 60 * 1000
TIMEOUT_DURATION == 10

HalfWindow == WARNING_RESET_TIME \div 2

Guilds == {"100", "200"}
Users == {"11", "22"}

\* member.user.username of the members the platform knows
Username(u) == IF u = "11" THEN "alice" ELSE "bob"

NoWarning == [present |-> FALSE, count |-> 0, lastWarning |-> 0]
NoWarnings == [u \in Users |-> NoWarning]
NoSettings == [present |-> FALSE, enabled |-> FALSE, warnings |-> NoWarnings]
NoDocument == [g \in Guilds |-> NoSettings]

\* (the entry always built anew, with no warnings)
SetEnabledAnew(doc, g, enabled) ==
    [doc EXCEPT ![g] = [present |-> TRUE,
                        enabled |-> enabled,
                        warnings |-> NoWarnings]]

\* settings.get(guildId) || { enabled: false, warnings: {} }, then
\* settings.enabled = enabled; this.settings.set(guildId, settings)
SetEnabled(doc, g, enabled) ==
    [doc EXCEPT ![g] = [present |-> TRUE,
                        enabled |-> enabled,
                        warnings |-> doc[g].warnings]]

\* (the comparison written as a strict one)
WindowElapsedStrict(t, lastWarning) == t - lastWarning > WARNING_RESET_TIME

\* timeSinceLastWarning >= this.WARNING_RESET_TIME
WindowElapsed(t, lastWarning) == t - lastWarning >= WARNING_RESET_TIME

\* warnUser, from the creation of the record to warning.lastWarning = Date.now()
Incremented(w, t) ==
    LET w0 == IF w.present THEN w
              ELSE [present |-> TRUE, count |-> 0, lastWarning |-> t]
        c0 == IF WindowElapsed(t, w0.lastWarning) THEN 0 ELSE w0.count
    IN  [present |-> TRUE, count |-> c0 + 1, lastWarning |-> t]

\* the escalation test: warning.count >= this.WARNING_THRESHOLD
ReachedThreshold(count) == count >= WARNING_THRESHOLD

\* (the reset left out)
ResetAfterTimeoutKept(w) == w

\* warning.count = 0, after the timeout was applied
ResetAfterTimeout(w) == [w EXCEPT !.count = 0]

\* member.timeout(this.TIMEOUT_DURATION * 60 * 1000, ...)
EscalationCall(g, u) ==
    [op |-> "timeout", guild |-> g, target |-> u,
     n |-> TIMEOUT_DURATION * 60 * 1000,
     text |-> "Multiple warnings for inappropriate behavior"]

(***************************************************************************)
(* The platform, as one invocation finds it: the guild cache, the bot's    *)
(* own member record, the member directory, and whether a fetch or a      *)
(* mutation the invocation makes resolves or rejects.                      *)
(***************************************************************************)
AllPermissions ==
    {"KickMembers", "BanMembers", "ModerateMembers", "ManageChannels",
     "ManageMessages", "SendMessages"}

Nominal ==
    [guild |-> TRUE, me |-> TRUE, perms |-> AllPermissions, cached |-> TRUE,
     fetch |-> TRUE, kickable |-> TRUE, bannable |-> TRUE,
     moderatable |-> TRUE, mutation |-> TRUE]

BotSamples ==
    {[Nominal EXCEPT !.guild = FALSE], [Nominal EXCEPT !.me = FALSE],
     [Nominal EXCEPT !.perms = {}]}
        \cup {[Nominal EXCEPT !.perms = AllPermissions \ {p}] : p \in AllPermissions}

MemberSamples ==
    {[Nominal EXCEPT !.fetch = FALSE],
     [Nominal EXCEPT !.cached = FALSE],
     [Nominal EXCEPT !.cached = FALSE, !.fetch = FALSE],
     [Nominal EXCEPT !.kickable = FALSE],
     [Nominal EXCEPT !.bannable = FALSE],
     [Nominal EXCEPT !.moderatable = FALSE],
     [Nominal EXCEPT !.kickable = FALSE, !.bannable = FALSE,
                     !.moderatable = FALSE]}

\* what the platform may answer during one invocation
Environments ==
    {[b EXCEPT !.cached = m.cached, !.fetch = m.fetch,
               !.kickable = m.kickable, !.bannable = m.bannable,
               !.moderatable = m.moderatable, !.mutation = ok] :
        b \in BotSamples \cup {Nominal}, m \in MemberSamples \cup {Nominal},
        ok \in BOOLEAN}

\* guild.members.cache, in iteration order; nickname "" is no nickname
Members ==
    <<[id |-> "11", username |-> "alice", nickname |-> ""],
      [id |-> "22", username |-> "bob", nickname |-> "Alicia"]>>

NoMember == [id |-> "", username |-> "", nickname |-> ""]

\* (the match by equality alone)
MemberMatchesExact(m, lower) ==
    \/ ToLower(m.username) = lower
    \/ (m.nickname # "" /\ ToLower(m.nickname) = lower)

\* the predicate of guild.members.cache.find
MemberMatches(m, lower) ==
    \/ ToLower(m.username) = lower
    \/ (m.nickname # "" /\ ToLower(m.nickname) = lower)
    \/ Includes(ToLower(m.username), lower)
    \/ (m.nickname # "" /\ Includes(ToLower(m.nickname), lower))

RECURSIVE FindMember(_, _)
\* Collection.find: the first member of the cache that matches, from index i
FindMember(lower, i) ==
    IF i > Len(Members) THEN NoMember
    ELSE IF MemberMatches(Members[i], lower) THEN Members[i]
    ELSE FindMember(lower, i + 1)

\* guild.members.fetch(id): the member, or NoMember for a rejection
FetchMember(e, id) ==
    IF e.fetch /\ \E i \in 1..Len(Members) : Members[i].id = id
    THEN Members[CHOOSE i \in 1..Len(Members) : Members[i].id = id]
    ELSE NoMember

(***************************************************************************)
(* ModerationService: what a method returns, whether it threw, and the     *)
(* platform mutations it issued.                                           *)
(***************************************************************************)
Ret(text) == [res |-> text, threw |-> FALSE, calls |-> <<>>]
Threw == [res |-> "", threw |-> TRUE, calls |-> <<>>]
\* (the platform call made again when it failed)
DidRetried(text, call) ==
    [res |-> text, threw |-> FALSE,
     calls |-> IF StartsWith(text, "Error") THEN <<call, call>> ELSE <<call>>]

Did(text, call) == [res |-> text, threw |-> FALSE, calls |-> <<call>>]

Mutation(op, g, target, n, text) ==
    [op |-> op, guild |-> g, target |-> target, n |-> n, text |-> text]

\* (the check passing whatever the bot holds)
HasPermissionAlways(e, permission) == TRUE

\* checkBotPermission, once fetchMe has resolved
HasPermission(e, permission) == permission \in e.perms

\* (the flag not consulted)
MemberFlagIgnored(e, flag) == TRUE

\* member.kickable, member.bannable, member.moderatable
MemberFlag(e, flag) ==
    CASE flag = "kickable" -> e.kickable
      [] flag = "bannable" -> e.bannable
      [] flag = "moderatable" -> e.moderatable

\* resolveUser: [threw, member], member = NoMember for null
ResolveUser(e, v) ==
    IF v.t # "string"
    THEN [threw |-> TRUE, member |-> NoMember]
    ELSE LET userId == Strip(v.s, {"<", "@", "!", ">"})
         IN  [threw |-> FALSE,
              member |->
                  IF IsDigits(userId) THEN FetchMember(e, userId)
                  ELSE IF ~e.cached /\ ~e.fetch THEN NoMember
                  ELSE FindMember(ToLower(userId), 1)]

\* reason || 'No reason provided'
ReasonOrDefault(reason) ==
    IF Truthy(reason) THEN Show(reason) ELSE "No reason provided"

\* ${reason ? ` for: ${reason}` : ''}
ForReason(reason) == IF Truthy(reason) THEN " for: " \o Show(reason) ELSE ""

KickUser(e, g, userId, reason) ==
    IF ~e.guild THEN Ret("Error: I cannot find this server.")
    ELSE IF ~e.me THEN Threw
    ELSE IF ~HasPermission(e, "KickMembers")
    THEN Ret("Error: I don't have permission to kick members.")
    ELSE LET r == ResolveUser(e, userId)
             name == r.member.username
         IN  IF r.threw THEN Threw
             ELSE IF r.member = NoMember
             THEN Ret("Error: Could not find user " \o Show(userId) \o ".")
             ELSE IF ~MemberFlag(e, "kickable")
             THEN Ret("Error: I cannot kick " \o name
                        \o " due to permission hierarchy.")
             ELSE Did(IF e.mutation
                      THEN "Successfully kicked " \o name \o ForReason(reason) \o "."
                      ELSE "Error: Failed to kick " \o name \o ".",
                      Mutation("kick", g, r.member.id, 0, ReasonOrDefault(reason)))

\* Math.max(0, Math.min(7, deleteMessageDays))
BanDays(deleteMessageDays) == MathMax(0, MathMin(7, deleteMessageDays))

\* the default parameter deleteMessageDays = 0, then the coercion of Math.min
DeleteMessageDays(v) == IF v.t = "undefined" THEN 0 ELSE ToNumber(v)

BanUser(e, g, userId, reason, deleteMessageDays) ==
    IF ~e.guild THEN Ret("Error: I cannot find this server.")
    ELSE IF ~e.me THEN Threw
    ELSE IF ~HasPermission(e, "BanMembers")
    THEN Ret("Error: I don't have permission to ban members.")
    ELSE LET r == ResolveUser(e, userId)
             name == r.member.username
             days == BanDays(DeleteMessageDays(deleteMessageDays))
         IN  IF r.threw THEN Threw
             ELSE IF r.member = NoMember
             THEN Ret("Error: Could not find user " \o Show(userId) \o ".")
             ELSE IF ~MemberFlag(e, "bannable")
             THEN Ret("Error: I cannot ban " \o name
                        \o " due to permission hierarchy.")
             ELSE Did(IF e.mutation
                      THEN "Successfully banned " \o name \o ForReason(reason) \o "."
                      ELSE "Error: Failed to ban " \o name \o ".",
                      Mutation("ban", g, r.member.id, Times(days, 86400),
                               ReasonOrDefault(reason)))

MuteUser(e, g, userId, duration, reason) ==
    IF ~e.guild THEN Ret("Error: I cannot find this server.")
    ELSE IF ~e.me THEN Threw
    ELSE IF ~HasPermission(e, "ModerateMembers")
    THEN Ret("Error: I don't have permission to timeout members.")
    ELSE LET r == ResolveUser(e, userId)
             name == r.member.username
         IN  IF r.threw THEN Threw
             ELSE IF r.member = NoMember
             THEN Ret("Error: Could not find user '" \o Show(userId)
                        \o "' in this server.")
             ELSE IF ~MemberFlag(e, "moderatable")
             THEN Ret("Error: I cannot timeout " \o name
                        \o " due to permission hierarchy.")
             ELSE Did(IF e.mutation
                      THEN "Successfully timed out " \o name \o " for "
                            \o Show(duration) \o " minute(s)"
                            \o ForReason(reason) \o "."
                      ELSE "Error: Failed to timeout " \o name \o ".",
                      Mutation("timeout", g, r.member.id,
                               Times(Times(ToNumber(duration), 60), 1000),
                               ReasonOrDefault(reason)))

\* guild.channels.cache, in iteration order
Channels ==
    <<[id |-> "500", name |-> "general", type |-> "text"],
      [id |-> "501", name |-> "lounge", type |-> "voice"],
      [id |-> "502", name |-> "admin", type |-> "category"],
      [id |-> "503", name |-> "forum-general", type |-> "forum"],
      [id |-> "504", name |-> "news", type |-> "announcement"],
      [id |-> "505", name |-> "503-archive", type |-> "text"]>>

NoChannel == [id |-> "", name |-> "", type |-> ""]

\* the channel types resolveChannel returns
Resolvable(c) == c.type \in {"text", "voice", "category", "announcement"}

RECURSIVE FindChannel(_, _)
\* guild.channels.cache.find: the first channel whose name contains lowerName
FindChannel(lowerName, i) ==
    IF i > Len(Channels) THEN NoChannel
    ELSE IF Includes(ToLower(Channels[i].name), lowerName) THEN Channels[i]
    ELSE FindChannel(lowerName, i + 1)

\* resolveChannel: the channel, NoChannel for null; every throw is caught
ResolveChannel(e, v) ==
    IF v.t # "string" THEN NoChannel
    ELSE LET byId == IF \E i \in 1..Len(Channels) : Channels[i].id = v.s
                     THEN Channels[CHOOSE i \in 1..Len(Channels) :
                                        Channels[i].id = v.s]
                     ELSE NoChannel
             byName == FindChannel(ToLower(v.s), 1)
         IN  IF IsDigits(v.s) /\ (~e.fetch \/ byId = NoChannel) THEN NoChannel
             ELSE IF IsDigits(v.s) /\ Resolvable(byId) THEN byId
             ELSE IF byName # NoChannel /\ Resolvable(byName) THEN byName
             ELSE NoChannel

\* the message of an Error the platform client rejects with
PlatformError == "Missing Access"

CreateCategory(e, g, name, position) ==
    IF ~e.guild THEN Ret("Error: I cannot find this server.")
    ELSE IF ~e.me THEN Threw
    ELSE IF ~HasPermission(e, "ManageChannels")
    THEN Ret("Error: I don't have permission to manage channels.")
    ELSE Did(IF e.mutation /\ name.t = "string" /\ name.s # ""
             THEN "Successfully created category '" \o Show(name) \o "'."
             ELSE "Error: Failed to create category '" \o Show(name) \o "'.",
             Mutation("createCategory", g, Show(name), 0, ""))

\* (any channel the token resolves to taken for a category)
IsCategoryAny(channel) == TRUE

\* category.type === ChannelType.GuildCategory
IsCategory(channel) == channel.type = "category"

\* name and type are strings here: the executor trimmed and lowercased them
CreateChannel(e, g, name, type, categoryId, topic) ==
    IF ~e.guild THEN Ret("Error: I cannot find this server.")
    ELSE IF ~e.me THEN Threw
    ELSE IF ~HasPermission(e, "ManageChannels")
    THEN Ret("Error: I don't have permission to manage channels.")
    ELSE IF ToLower(type) \notin {"text", "voice", "announcement"}
    THEN Ret("Error: Invalid channel type '" \o type
                \o "'. Valid types are: text, voice, announcement.")
    ELSE LET category == ResolveChannel(e, categoryId)
             parent == IF Truthy(categoryId) THEN category ELSE NoChannel
         IN  IF Truthy(categoryId) /\ category = NoChannel
             THEN Ret("Error: Could not find category '" \o Show(categoryId) \o "'.")
             ELSE IF Truthy(categoryId) /\ ~IsCategory(category)
             THEN Ret("Error: '" \o Show(categoryId) \o "' is not a category.")
             ELSE Did(IF e.mutation /\ name # ""
                      THEN "Successfully created " \o type \o " channel '" \o name
                            \o "'" \o (IF parent # NoChannel
                                       THEN " in category '" \o parent.name \o "'"
                                       ELSE "") \o "."
                      ELSE "Error: Failed to create channel '" \o name
                            \o "'. Reason: " \o PlatformError,
                      Mutation("createChannel", g, name, 0, parent.id))

DeleteChannel(e, g, channelId, reason) ==
    IF ~e.guild THEN Ret("Error: I cannot find this server.")
    ELSE IF ~e.me THEN Threw
    ELSE IF ~HasPermission(e, "ManageChannels")
    THEN Ret("Error: I don't have permission to manage channels.")
    ELSE LET channel == ResolveChannel(e, channelId)
         IN  IF channel = NoChannel
             THEN Ret("Error: Could not find channel '" \o Show(channelId) \o "'.")
             ELSE Did(IF e.mutation
                      THEN "Successfully deleted channel '" \o channel.name \o "'."
                      ELSE "Error: Failed to delete channel '" \o channel.name \o "'.",
                      Mutation("deleteChannel", g, channel.id, 0,
                               ReasonOrDefault(reason)))

\* what textChannel.bulkDelete(amount, true) may do: delete all it was asked
\* for, part of them or none, or reject (for messages older than 14 days, or
\* for another reason)
BulkOutcomes == {"all", "half", "none", "old", "failed"}

BulkDeleted(amount, bulk) ==
    CASE bulk = "all" -> amount
      [] bulk = "half" -> amount \div 2
      [] OTHER -> 0

\* amount is a number here
DeleteMessages(e, g, channelId, amount, reason, bulk) ==
    IF ~e.guild THEN Ret("Error: I cannot find this server.")
    ELSE IF ~e.me THEN Threw
    ELSE IF ~HasPermission(e, "ManageMessages")
    THEN Ret("Error: I don't have permission to manage messages.")
    ELSE IF amount < 1 \/ amount > 100
    THEN Ret("Error: Amount must be between 1 and 100.")
    ELSE LET channel == ResolveChannel(e, channelId)
         IN  IF channel = NoChannel
             THEN Ret("Error: Could not find channel '" \o Show(channelId) \o "'.")
             ELSE IF channel.type # "text"
             THEN Ret("Error: '" \o channel.name \o "' is not a text channel.")
             ELSE Did(CASE bulk = "old" ->
                             "Error: Cannot delete messages older than 14 days."
                        [] bulk = "failed" ->
                             "Error: Failed to delete messages from '"
                                \o channel.name \o "'."
                        [] OTHER ->
                             "Successfully deleted "
                                \o ToString(BulkDeleted(amount, bulk))
                                \o " message(s) from '" \o channel.name \o "'.",
                      Mutation("bulkDelete", g, channel.id, amount, ""))

\* the EmbedBuilder accepts a title and a description that are strings of at
\* least one character and throws on anything else, inside the try
CreateEmbed(e, g, channelId, title, description) ==
    IF ~e.guild THEN Ret("Error: I cannot find this server.")
    ELSE IF ~e.me THEN Threw
    ELSE IF ~HasPermission(e, "SendMessages")
    THEN Ret("Error: I don't have permission to send messages.")
    ELSE LET channel == ResolveChannel(e, channelId)
             built == /\ title.t = "string" /\ title.s # ""
                      /\ description.t = "string" /\ description.s # ""
         IN  IF channel = NoChannel
             THEN Ret("Error: Could not find channel '" \o Show(channelId) \o "'.")
             ELSE IF channel.type # "text"
             THEN Ret("Error: '" \o channel.name \o "' is not a text channel.")
             ELSE IF ~built
             THEN Ret("Error: Failed to send embed message to '"
                        \o channel.name \o "'.")
             ELSE Did(IF e.mutation
                      THEN "Successfully sent embed message to '"
                            \o channel.name \o "'."
                      ELSE "Error: Failed to send embed message to '"
                            \o channel.name \o "'.",
                      Mutation("send", g, channel.id, 0, Show(title)))

(***************************************************************************)
(* Tasks.  A task is one running async invocation; every field is kept in  *)
(* every state so that the records of a task are comparable.               *)
(***************************************************************************)
TaskIds == {1, 2}

Reasons == {"spam"}

\* the argument bag of a structured call: the keys the executor reads
NoArgs ==
    [userId |-> Undefined, reason |-> Undefined, deleteMessageDays |-> Undefined,
     duration |-> Undefined, enabled |-> Undefined, name |-> Undefined,
     position |-> Undefined, type |-> Undefined, categoryId |-> Undefined,
     topic |-> Undefined, channelId |-> Undefined, amount |-> Undefined,
     title |-> Undefined, description |-> Undefined]

\* the locals of the batch loop of deleteMessages, and its history: the sizes
\* asked of the service, the messages the platform deleted, the last answer
NoLoop ==
    [channel |-> Undefined, max |-> 0, chunks |-> 0, total |-> 0, i |-> 0,
     asks |-> <<>>, sum |-> 0, last |-> ""]

\* the last ModerationService method an invocation called, and its outcome
NoService == [method |-> "", out |-> [res |-> "", threw |-> FALSE, calls |-> <<>>]]

\* no direct call: parseFunctionCall returns null
NoCall == [matched |-> FALSE, form |-> "", name |-> "", args |-> NoArgs]

\* a user token and what the two resolutions made of it: the executor's (an
\* id, or its error) and resolveUser's (the member's id, "" for null)
NoFound == [token |-> "", executor |-> "", service |-> ""]

\* a message: its text, whether a bot wrote it, whether message.mentions holds
\* the bot, whether it came from a guild; and botConfig.allowMentionTrigger
NoMessage ==
    [content |-> "", bot |-> FALSE, mentioned |-> FALSE, inGuild |-> FALSE,
     allow |-> FALSE]

\* history of the requests to the language model: how many were made, the
\* query of the last one, whether it declared the tools, how it ended
NoRequest ==
    [asked |-> 0, query |-> "", tools |-> FALSE, answer |-> "", sent |-> <<>>,
     proposed |-> <<>>]

\* the fields from msg on belong to MessageHandler.handleMessage: hpc is its
\* position, pending the text of the reply it awaits, delivered counts the
\* replies the platform accepted, caller is what checkAdminPermission found
IdleTask ==
    [pc |-> "idle", op |-> "", guild |-> "", user |-> "", reason |-> "",
     enabled |-> FALSE, snap |-> NoDocument, result |-> "", calls |-> <<>>,
     yielded |-> 0, name |-> "", args |-> NoArgs, inGuild |-> FALSE,
     env |-> Nominal, loop |-> NoLoop, svc |-> NoService,
     msg |-> NoMessage, hpc |-> "", query |-> "", parsed |-> NoCall,
     ai |-> NoRequest, pending |-> "", delivered |-> 0, faults |-> 0,
     caller |-> "", route |-> "", found |-> NoFound]

\* a return statement: the promise of the invocation resolves with a string
Returned(tk, text) == [tk EXCEPT !.pc = "done", !.result = text]

\* an exception or a rejected await that no try of the invocation catches
Thrown(tk) == [tk EXCEPT !.pc = "threw", !.result = ""]

\* (the text written is the one of an earlier save)
SnapshotStale(tk, doc) == tk

\* saveSettings, first half: Object.fromEntries and JSON.stringify run at the
\* call, the write of that text completes at the await
Snapshot(tk, doc) == [tk EXCEPT !.snap = doc]

NoHistory == [counts |-> <<>>, at |-> 0, expired |-> FALSE]

(***************************************************************************)
(* ModerationService.warnUser and FilterManager.warnUser.                  *)
(***************************************************************************)
\* ModerationService.warnUser and FilterManager.warnUser, from the call to the
\* await of guild.members.fetch(userId)
BeginWarn(tk, e, g, u, reason) ==
    LET wk == [tk EXCEPT !.svc.method = "warnUser", !.guild = g, !.user = u,
                         !.reason = reason, !.env = e]
    IN  IF ~e.guild
        THEN Returned(wk, "Error: I cannot find this server.")
        ELSE IF ~settings[g].present
        THEN Returned(wk, "Error: Server settings not found.")
        ELSE [wk EXCEPT !.pc = "warn_fetch"]

\* no warning is started on a record that has reached the bound of the model
WithinBound(g, u) == u \in Users => settings[g].warnings[u].count < MaxCount

WarnUser(t, g, u, reason, e) ==
    /\ task[t].pc = "idle"
    /\ WithinBound(g, u)
    /\ task' = [task EXCEPT ![t] =
            BeginWarn([IdleTask EXCEPT !.op = "warnUser"], e, g, u, reason)]
    /\ UNCHANGED <<settings, disk, now, hist, tfail>>

\* (the record created before the member is looked at)
WarnFetchedRecordFirst(t, found) ==
    /\ task[t].pc = "warn_fetch"
    /\ LET g == task[t].guild
           u == task[t].user
           known == IF u \in Users THEN u ELSE CHOOSE x \in Users : TRUE
           w == Incremented(settings[g].warnings[known], now)
           doc == [settings EXCEPT ![g].warnings[known] = w]
           h == hist[g][known]
           expired == h.counts # <<>> /\ now - h.at >= 24 * 60 * 60 * 1000
           fresh == h.counts = <<>> \/ expired
       IN  IF ~found \/ u \notin Users
           THEN /\ task' = [task EXCEPT ![t] = Returned(@, "Error: User not found.")]
                /\ settings' = [settings EXCEPT ![g].warnings[known] =
                        IF @.present THEN @
                        ELSE [present |-> TRUE, count |-> 0, lastWarning |-> now]]
                /\ UNCHANGED <<hist, tfail>>
           ELSE /\ settings' = doc
                /\ task' = [task EXCEPT ![t] =
                        Snapshot([@ EXCEPT !.pc = "warn_save", !.yielded = w.count],
                                 doc)]
                /\ hist' = [hist EXCEPT ![g][u] =
                        [counts |-> IF fresh THEN <<w.count>>
                                    ELSE Append(h.counts, w.count),
                         at |-> now,
                         expired |-> expired]]
                /\ tfail' = [tfail EXCEPT ![g][u] = IF fresh THEN FALSE ELSE @]
    /\ UNCHANGED <<disk, now>>

\* the fetch completes; on a member: create or reset the record, increment it,
\* stamp it, and start the save
WarnFetched(t, found) ==
    /\ task[t].pc = "warn_fetch"
    /\ LET g == task[t].guild
           u == task[t].user
           known == IF u \in Users THEN u ELSE CHOOSE x \in Users : TRUE
           w == Incremented(settings[g].warnings[known], now)
           doc == [settings EXCEPT ![g].warnings[known] = w]
           h == hist[g][known]
           expired == h.counts # <<>> /\ now - h.at >= 24 * 60 * 60 * 1000
           fresh == h.counts = <<>> \/ expired
       IN  IF ~found \/ u \notin Users
           THEN /\ task' = [task EXCEPT ![t] = Returned(@, "Error: User not found.")]
                /\ UNCHANGED <<settings, hist, tfail>>
           ELSE /\ settings' = doc
                /\ task' = [task EXCEPT ![t] =
                        Snapshot([@ EXCEPT !.pc = "warn_save", !.yielded = w.count],
                                 doc)]
                /\ hist' = [hist EXCEPT ![g][u] =
                        [counts |-> IF fresh THEN <<w.count>>
                                    ELSE Append(h.counts, w.count),
                         at |-> now,
                         expired |-> expired]]
                /\ tfail' = [tfail EXCEPT ![g][u] = IF fresh THEN FALSE ELSE @]
    /\ UNCHANGED <<disk, now>>

\* the save completes; escalate at the threshold, report the count otherwise
WarnSaved(t) ==
    /\ task[t].pc = "warn_save"
    /\ disk' = task[t].snap
    /\ LET g == task[t].guild
           u == task[t].user
           count == settings[g].warnings[u].count
       IN  task' = [task EXCEPT ![t] =
                IF ReachedThreshold(count)
                THEN [@ EXCEPT !.pc = "warn_timeout",
                               !.calls = Append(@, EscalationCall(g, u))]
                ELSE Returned(@, "Warning issued to " \o Username(u) \o ": "
                                  \o task[t].reason \o ". This is warning "
                                  \o ToString(count) \o "/"
                                  \o ToString(WARNING_THRESHOLD) \o ".")]
    /\ UNCHANGED <<settings, now, hist, tfail>>

\* member.timeout completes: reset and save again, or the catch
WarnTimeoutDone(t, ok) ==
    /\ task[t].pc = "warn_timeout"
    /\ LET g == task[t].guild
           u == task[t].user
           doc == [settings EXCEPT ![g].warnings[u] = ResetAfterTimeout(@)]
       IN  IF ok
           THEN /\ settings' = doc
                /\ task' = [task EXCEPT ![t] =
                        Snapshot([@ EXCEPT !.pc = "warn_resave"], doc)]
                /\ hist' = [hist EXCEPT ![g][u] = NoHistory]
                /\ tfail' = [tfail EXCEPT ![g][u] = FALSE]
           ELSE /\ task' = [task EXCEPT ![t] =
                        Returned(@, "Warning issued to " \o Username(u)
                            \o ", but I couldn't apply timeout due to permissions.")]
                /\ tfail' = [tfail EXCEPT ![g][u] = TRUE]
                /\ UNCHANGED <<settings, hist>>
    /\ UNCHANGED <<disk, now>>

\* the second save completes
WarnResaved(t) ==
    /\ task[t].pc = "warn_resave"
    /\ disk' = task[t].snap
    /\ task' = [task EXCEPT ![t] =
            Returned(@, Username(task[t].user) \o " has been timed out for "
                \o ToString(TIMEOUT_DURATION)
                \o " minutes due to multiple warnings.")]
    /\ UNCHANGED <<settings, now, hist, tfail>>

(***************************************************************************)
(* ModerationService.setFilterSettings and FilterManager.setFilterEnabled. *)
(***************************************************************************)
\* ModerationService.setFilterSettings, from the call to the await of
\* checkAdminPermission
BeginFilter(tk, e, g, enabled) ==
    LET fk == [tk EXCEPT !.svc.method = "setFilterSettings", !.guild = g,
                         !.enabled = enabled, !.env = e]
    IN  IF ~e.guild
        THEN Returned(fk, "Error: I cannot find this server.")
        ELSE [fk EXCEPT !.pc = "filter_admin"]

SetFilterSettings(t, g, enabled, e) ==
    /\ task[t].pc = "idle"
    /\ task' = [task EXCEPT ![t] =
            BeginFilter([IdleTask EXCEPT !.op = "setFilterSettings"], e, g, enabled)]
    /\ UNCHANGED <<settings, disk, now, hist, tfail>>

AdminOutcomes == {"admin", "member", "rejected"}

\* (every member taken for an administrator)
IsAdministratorAnyone(outcome) == TRUE

\* member.permissions.has(PermissionFlagsBits.Administrator)
IsAdministrator(outcome) == outcome = "admin"

\* guild.members.fetch(userId) of checkAdminPermission completes
FilterAdminChecked(t, outcome) ==
    /\ task[t].pc = "filter_admin"
    /\ LET g == task[t].guild
           doc == SetEnabled(settings, g, task[t].enabled)
           tk == [task[t] EXCEPT !.caller = outcome]
       IN  IF outcome = "rejected"
           THEN /\ task' = [task EXCEPT ![t] = Thrown(tk)]
                /\ UNCHANGED settings
           ELSE IF ~IsAdministrator(outcome)
           THEN /\ task' = [task EXCEPT ![t] = Returned(tk,
                        "Error: Only administrators can manage filter settings.")]
                /\ UNCHANGED settings
           ELSE /\ settings' = doc
                /\ task' = [task EXCEPT ![t] =
                        Snapshot([tk EXCEPT !.pc = "filter_save"], doc)]
    /\ UNCHANGED <<disk, now, hist, tfail>>

\* the save of setFilterEnabled completes
FilterSaved(t) ==
    /\ task[t].pc = "filter_save"
    /\ disk' = task[t].snap
    /\ task' = [task EXCEPT ![t] =
            Returned(@, "Content filter has been "
                \o (IF task[t].enabled THEN "enabled" ELSE "disabled")
                \o " for this server.")]
    /\ UNCHANGED <<settings, now, hist, tfail>>

(***************************************************************************)
(* The caller takes the outcome; the clock.                                *)
(***************************************************************************)
Settled(t) ==
    /\ task[t].pc \in {"done", "threw"}
    /\ task' = [task EXCEPT ![t] = IdleTask]
    /\ UNCHANGED <<settings, disk, now, hist, tfail>>

Tick ==
    /\ now < MaxTicks * HalfWindow
    /\ now' = now + HalfWindow
    /\ UNCHANGED <<settings, disk, task, hist, tfail>>

(***************************************************************************)
(* The ledger, one invocation at a time.  The startup load has completed:  *)
(* the map holds what the file held.                                       *)
(***************************************************************************)
InitialDocuments ==
    {NoDocument, SetEnabled(NoDocument, "100", TRUE)}

InitLedger ==
    /\ settings \in InitialDocuments
    /\ disk = settings
    /\ now = 0
    /\ task = [t \in TaskIds |-> IdleTask]
    /\ hist = [g \in Guilds |-> [u \in Users |-> NoHistory]]
    /\ tfail = [g \in Guilds |-> [u \in Users |-> FALSE]]

LedgerStep(t) ==
    \/ \E found \in BOOLEAN : WarnFetched(t, found)
    \/ WarnSaved(t)
    \/ \E ok \in BOOLEAN : WarnTimeoutDone(t, ok)
    \/ WarnResaved(t)
    \/ \E outcome \in AdminOutcomes : FilterAdminChecked(t, outcome)
    \/ FilterSaved(t)
    \/ Settled(t)

\* the guilds whose members are warned in the ledger's runs
WarnGuilds == {"100"}

\* the guild is in the client's cache, or is not
LedgerEnvironments == {Nominal, [Nominal EXCEPT !.guild = FALSE]}

NextLedger ==
    \/ \E g \in WarnGuilds, u \in Users, r \in Reasons, e \in LedgerEnvironments :
            WarnUser(1, g, u, r, e)
    \/ \E g \in Guilds, b \in BOOLEAN, e \in LedgerEnvironments :
            SetFilterSettings(1, g, b, e)
    \/ LedgerStep(1)
    \/ Tick

SpecLedger == InitLedger /\ [][NextLedger]_vars

(***************************************************************************)
(* Claims about the ledger.                                                *)
(***************************************************************************)
IsPrefix(s, r) == Len(s) <= Len(r) /\ SubSeq(r, 1, Len(s)) = s

WarnCompleted(t) == task[t].svc.method = "warnUser" /\ task[t].pc = "done"

\* C2, as claimed: after every completed warnUser the stored count of every
\* (guild, user) is at least 0 and below the threshold of 3, whether the
\* timeout of the escalation succeeded or failed.
C2_CountBelowThreshold ==
    \A t \in TaskIds : WarnCompleted(t) =>
        \A g \in Guilds, u \in Users :
            /\ settings[g].warnings[u].count >= 0
            /\ settings[g].warnings[u].count < 3

\* C3: successive warnings of one (guild, user) inside the reset window
\* produce the counts 1, 2, 3; the third issues the timeout of 10 minutes
\* and, the timeout applied, leaves the stored count at 0, so that the next
\* warning produces 1 again.
C3_ThreeWarningsEscalate ==
    \A g \in Guilds, u \in Users :
        ~tfail[g][u] =>
            /\ IsPrefix(hist[g][u].counts, <<1, 2, 3>>)
            /\ settings[g].warnings[u].count =
                    IF hist[g][u].counts = <<>> THEN 0
                    ELSE hist[g][u].counts[Len(hist[g][u].counts)]
            /\ \A t \in TaskIds :
                   (task[t].guild = g /\ task[t].user = u /\ WarnCompleted(t)
                        /\ task[t].yielded > 0) =>
                       IF task[t].yielded >= 3
                       THEN /\ task[t].calls =
                                    <<[op |-> "timeout", guild |-> g, target |-> u,
                                       n |-> 10 * 60 * 1000,
                                       text |-> "Multiple warnings for inappropriate behavior"]>>
                            /\ settings[g].warnings[u].count = 0
                            /\ hist[g][u].counts = <<>>
                       ELSE /\ task[t].calls = <<>>
                            /\ task[t].yielded = settings[g].warnings[u].count

\* a third warning has completed with its timeout applied
C3_Witness ==
    \E t \in TaskIds :
        /\ WarnCompleted(t)
        /\ task[t].yielded = 3
        /\ ~tfail[task[t].guild][task[t].user]
        /\ settings[task[t].guild].warnings[task[t].user].count = 0
        /\ task[t].result =
                "alice has been timed out for 10 minutes due to multiple warnings."

\* C4: at the increment of warnUser, a record whose last warning is at least
\* 24 hours old is counted from 0, so the call yields 1; a younger record
\* keeps its count, which the call increments.
C4_ResetWindow ==
    [][\A t \in TaskIds :
          (task[t].pc = "warn_fetch" /\ task'[t].pc = "warn_save") =>
              LET w == settings[task[t].guild].warnings[task[t].user]
                  v == settings'[task[t].guild].warnings[task[t].user]
              IN  /\ v.count = IF ~w.present THEN 1
                               ELSE IF now - w.lastWarning >= 24 * 60 * 60 * 1000
                               THEN 1
                               ELSE w.count + 1
                  /\ v.lastWarning = now
                  /\ task'[t].yielded = v.count]_vars

\* a warning found a record with warnings on it and older than the window,
\* and produced the count 1
C4_Witness ==
    \E t \in TaskIds :
        /\ task[t].pc = "warn_save"
        /\ hist[task[t].guild][task[t].user].expired
        /\ task[t].yielded = 1

(***************************************************************************)
(* FunctionExecutor.handleFunctionCall: the resolution of args.userId.     *)
(***************************************************************************)
\* the guild and the channel of the message, and its author
MessageGuild == "100"
MessageChannel == "500"

RECURSIVE MentionId(_, _)
\* userId.match(/<@!?(\d+)>/): the digits of the first mention at or after
\* position i, "" when there is no match
MentionId(s, i) ==
    LET at == IndexOf(s, "<@", i)
        rest == SubSeq(s, at + 2, Len(s))
        body == IF rest # "" /\ Head(rest) = "!" THEN Tail(rest) ELSE rest
        run == DigitRun(body)
        after == SubSeq(body, Len(run) + 1, Len(body))
    IN  IF at = 0 THEN ""
        ELSE IF run # "" /\ after # "" /\ Head(after) = ">" THEN run
        ELSE MentionId(s, at + 1)

\* lines 123-170: [done, out, userId]; done when the executor returned or
\* threw before the switch, userId the value the switch passes on otherwise
PreResolve(e, v) ==
    LET go(u) == [done |-> FALSE, out |-> Ret(""), userId |-> u]
        stop(o) == [done |-> TRUE, out |-> o, userId |-> Undefined]
        bare == StripLeading(v.s, "@")
        member == FindMember(ToLower(bare), 1)
    IN  IF ~Truthy(v) THEN go(v)
        ELSE IF v.t # "string" THEN stop(Threw)
        ELSE IF MentionId(v.s, 1) # "" THEN go(Str(MentionId(v.s, 1)))
        ELSE IF IsDigits(bare) \/ ~e.guild THEN go(Str(bare))
        ELSE IF ~e.cached /\ ~e.fetch
        THEN stop(Ret("Error: Failed to resolve username '" \o bare \o "'."))
        ELSE IF member = NoMember
        THEN stop(Ret("Error: Could not find user '" \o bare \o "' in this server."))
        ELSE go(Str(member.id))

(***************************************************************************)
(* FunctionExecutor.handleFunctionCall: the switch.                        *)
(***************************************************************************)
RECURSIVE TrimEnd(_)
TrimEnd(s) ==
    IF s # "" /\ SubSeq(s, Len(s), Len(s)) = " "
    THEN TrimEnd(SubSeq(s, 1, Len(s) - 1)) ELSE s

\* String.prototype.trim, for blanks
Trim(s) == TrimEnd(StripLeading(s, " "))

\* the task has called a method of the ModerationService, which answered out
Invoke(tk, method, out) ==
    [tk EXCEPT !.calls = @ \o out.calls,
               !.svc = [method |-> method, out |-> out]]

\* return await ...: the invocation ends as the awaited promise did
Complete(tk, out) == IF out.threw THEN Thrown(tk) ELSE Returned(tk, out.res)

Finish(tk, method, out) == Complete(Invoke(tk, method, out), out)

\* catch (error) { return `<prefix>${error.message}` }
Caught(out, prefix) ==
    IF out.threw THEN Ret(prefix \o PlatformError) ELSE out

\* Math.min(amount, 1000)
MaxToDelete(amount) == MathMin(amount, 1000)

\* Math.ceil(maxToDelete / 100)
Chunks(maxToDelete) == (maxToDelete + 99) \div 100

\* (the batch not capped at 100)
BatchSizeUncapped(maxToDelete, totalDeleted) == maxToDelete - totalDeleted

\* Math.min(100, maxToDelete - totalDeleted)
BatchSize(maxToDelete, totalDeleted) == MathMin(100, maxToDelete - totalDeleted)

RECURSIVE DeletedMatch(_, _)
\* result.match(/Successfully deleted (\d+) message/)[1], "" for no match
DeletedMatch(s, i) ==
    LET lead == "Successfully deleted "
        at == IndexOf(s, lead, i)
        rest == SubSeq(s, at + Len(lead), Len(s))
        run == DigitRun(rest)
        after == SubSeq(rest, Len(run) + 1, Len(rest))
    IN  IF at = 0 THEN ""
        ELSE IF run # "" /\ StartsWith(after, " message") THEN run
        ELSE DeletedMatch(s, at + 1)

\* (only the first digit of the count read)
DeletedCountFirstDigit(run) == DigitsVal(SubSeq(run, 1, 1), 0)

\* parseInt(deletedMatch[1])
DeletedCount(run) == ParseIntText(run)

ReplyCall(maxToDelete, chunks) ==
    Mutation("reply", MessageGuild, MessageChannel, 0,
             "Attempting to delete " \o ToString(maxToDelete) \o " messages in "
                \o ToString(chunks) \o " batches. This may take a moment...")

\* args.reason || "Requested by user"
DeleteReason(reason) == IF Truthy(reason) THEN reason ELSE Str("Requested by user")

\* args.channelId || message.channel.id
ChannelOrCurrent(channelId) ==
    IF Truthy(channelId) THEN channelId ELSE Str(MessageChannel)

\* case "createchannel"
CreateChannelCase(tk, e, g) ==
    LET args == tk.args
        channelType == IF Truthy(args.type) THEN ToLower(args.type.s) ELSE "text"
        out == CreateChannel(e, g, Trim(args.name.s), channelType,
                             args.categoryId, args.topic)
    IN  IF ~Truthy(args.name)
        THEN Returned(tk, "Error: Channel name is required")
        ELSE IF Truthy(args.type) /\ args.type.t # "string"
        THEN Thrown(tk)
        ELSE IF channelType \notin {"text", "voice", "announcement"}
        THEN Returned(tk, "Error: Invalid channel type '" \o Show(args.type)
                        \o "'. Valid types are: text, voice, announcement.")
        ELSE IF args.name.t # "string"
        THEN Returned(tk, "Error: Failed to create channel. "
                        \o "args.name.trim is not a function")
        ELSE Complete(Invoke(tk, "createChannel", out),
                      Caught(out, "Error: Failed to create channel. "))

\* case "deletemessages", to the first await
DeleteMessagesCase(tk, e, g, bulk) ==
    LET args == tk.args
        channelId == ChannelOrCurrent(args.channelId)
        amount == ParseInt(args.amount)
        maxToDelete == MaxToDelete(amount)
        chunks == Chunks(maxToDelete)
        out == DeleteMessages(e, g, channelId, amount,
                              DeleteReason(args.reason), bulk)
    IN  IF amount = NaN \/ amount <= 0
        THEN Returned(tk, "Error: Amount must be a positive number")
        ELSE IF amount > 100
        THEN [tk EXCEPT !.pc = "del_reply",
                        !.calls = Append(@, ReplyCall(maxToDelete, chunks)),
                        !.loop = [NoLoop EXCEPT !.channel = channelId,
                                                !.max = maxToDelete,
                                                !.chunks = chunks]]
        ELSE Complete(Invoke(tk, "deleteMessages", out),
                      Caught(out, "Error: Failed to delete messages. "))

\* the switch on name.toLowerCase(), to the first await that the model keeps
\* as a step of its own; userId is the resolved args.userId
Dispatch(tk, e, g, userId, bulk) ==
    LET args == tk.args
        name == ToLower(tk.name)
    IN  CASE name = "kickuser" ->
                Finish(tk, "kickUser", KickUser(e, g, userId, args.reason))
          [] name = "banuser" ->
                Finish(tk, "banUser",
                       BanUser(e, g, userId, args.reason, args.deleteMessageDays))
          [] name = "muteuser" ->
                Finish(tk, "muteUser",
                       MuteUser(e, g, userId, args.duration, args.reason))
          [] name = "filtersettings" ->
                BeginFilter(tk, e, g, Truthy(args.enabled))
          [] name = "warnuser" ->
                BeginWarn(tk, e, g, userId.s, Show(args.reason))
          [] name = "createcategory" ->
                Finish(tk, "createCategory",
                       CreateCategory(e, g, args.name, args.position))
          [] name = "createchannel" -> CreateChannelCase(tk, e, g)
          [] name = "deletechannel" ->
                Finish(tk, "deleteChannel",
                       DeleteChannel(e, g, args.channelId, args.reason))
          [] name = "deletemessages" -> DeleteMessagesCase(tk, e, g, bulk)
          [] name = "createembed" ->
                Finish(tk, "createEmbed",
                       CreateEmbed(e, g, ChannelOrCurrent(args.channelId),
                                   args.title, args.description))
          [] OTHER ->
                Returned(tk, "Error: Unknown function '" \o tk.name \o "'.")

\* a structured call and the message it came with
Call(name, args, inGuild) == [name |-> name, args |-> args, inGuild |-> inGuild]

\* the calls the model follows: a warning is given to a user id that is a
\* string (with none, members.fetch answers with the whole directory)
Followed(call, e) ==
    LET pre == PreResolve(e, call.args.userId)
    IN  (ToLower(call.name) = "warnuser" /\ call.inGuild /\ ~pre.done) =>
            (pre.userId.t = "string" /\ WithinBound(MessageGuild, pre.userId.s))

\* handleFunctionCall run by the invocation base, from the call to its first
\* await or to its end
Execute(base, call, e, bulk) ==
    LET tk == [base EXCEPT !.op = "handleFunctionCall",
                           !.name = call.name, !.args = call.args,
                           !.inGuild = call.inGuild, !.env = e,
                           !.guild = MessageGuild]
        pre == PreResolve(e, call.args.userId)
    IN  IF ~call.inGuild
        THEN Returned(tk, "Error: This command can only be used in a server.")
        ELSE IF pre.done THEN Complete(tk, pre.out)
        ELSE Dispatch(tk, e, MessageGuild, pre.userId, bulk)

HandleFunctionCall(t, call, e, bulk) ==
    /\ task[t].pc = "idle"
    /\ Followed(call, e)
    /\ task' = [task EXCEPT ![t] = Execute(IdleTask, call, e, bulk)]
    /\ UNCHANGED <<settings, disk, now, hist, tfail>>

\* message.reply of the batched deletion completes
DeleteReplied(t, ok) ==
    /\ task[t].pc = "del_reply"
    /\ task' = [task EXCEPT ![t] =
            IF ok THEN [@ EXCEPT !.pc = "del_batch", !.delivered = @ + 1]
            ELSE Returned([@ EXCEPT !.faults = @ + 1],
                          "Error: Failed to delete messages. " \o PlatformError)]
    /\ UNCHANGED <<settings, disk, now, hist, tfail>>

\* one turn of the loop: the batch is asked of the service, its answer is
\* read, and the loop goes on or the invocation returns
DeleteBatchDone(t, e, bulk) ==
    /\ task[t].pc = "del_batch"
    /\ LET lp == task[t].loop
           batchSize == BatchSize(lp.max, lp.total)
           out == DeleteMessages(e, task[t].guild, lp.channel, batchSize,
                                 DeleteReason(task[t].args.reason), bulk)
           run == DeletedMatch(out.res, 1)
           deleted == IF out.calls # <<>> /\ bulk \notin {"old", "failed"}
                      THEN BulkDeleted(batchSize, bulk) ELSE 0
           totalDeleted == IF run # "" THEN lp.total + DeletedCount(run)
                           ELSE lp.total
           lp2 == [lp EXCEPT !.total = totalDeleted, !.i = @ + 1,
                             !.asks = Append(@, batchSize),
                             !.sum = @ + deleted, !.last = out.res]
           tk == Invoke([task[t] EXCEPT !.loop = lp2, !.env = e],
                        "deleteMessages", out)
       IN  task' = [task EXCEPT ![t] =
                IF out.threw
                THEN Returned(tk, "Error: Failed to delete messages. "
                                    \o PlatformError)
                ELSE IF run = "" /\ Includes(out.res, "Error")
                THEN Returned(tk, "Partially completed. Deleted "
                                    \o ToString(lp.total)
                                    \o " messages. Stopped due to: " \o out.res)
                ELSE IF lp2.i < lp2.chunks /\ lp2.total < lp2.max
                THEN tk
                ELSE Returned(tk, "Successfully deleted "
                                    \o ToString(totalDeleted)
                                    \o " message(s) from the channel.")]
    /\ UNCHANGED <<settings, disk, now, hist, tfail>>

(***************************************************************************)
(* Structured calls the runs draw from.                                    *)
(***************************************************************************)
ForUser(u) == [NoArgs EXCEPT !.userId = u]

\* args.userId as a model may produce it: ids, mentions, names, fragments of
\* names, names nobody has, nothing, and a number
UserTokens ==
    {Str("11"), Str("<@22>"), Str("<@!11>"), Str("@alice"), Str("Alic"),
     Str("ghost"), Str("999"), Str("@"), Undefined, Num(11)}

ModerationCalls ==
    {Call("kickUser", ForUser(u), TRUE) : u \in UserTokens}
    \cup {Call("KICKUSER", ForUser(Str("<@22>")), TRUE),
          Call("kickUser", [ForUser(Str("11")) EXCEPT !.reason = Str("spam")], TRUE),
          Call("kickUser", ForUser(Str("11")), FALSE),
          Call("banUser", ForUser(Str("22")), TRUE),
          Call("banUser", [ForUser(Str("11")) EXCEPT !.deleteMessageDays = Num(3),
                                                     !.reason = Str("spam")], TRUE),
          Call("banUser", ForUser(Undefined), TRUE),
          Call("muteUser", [ForUser(Str("22")) EXCEPT !.duration = Num(10)], TRUE),
          Call("muteUser", [ForUser(Str("bob")) EXCEPT !.duration = Str("5"),
                                                      !.reason = Str("spam")], TRUE),
          Call("muteUser", ForUser(Str("ghost")), TRUE),
          Call("muteUser", ForUser(Str("22")), TRUE)}

LedgerCalls ==
    {Call("warnUser", [ForUser(u) EXCEPT !.reason = Str("spam")], TRUE) :
        u \in {Str("11"), Str("<@11>"), Str("999")}}
    \cup {Call("filterSettings", [NoArgs EXCEPT !.enabled = b], TRUE) :
            b \in {Bool(TRUE), Bool(FALSE), Undefined}}

ChannelCalls ==
    {Call("createCategory", [NoArgs EXCEPT !.name = n], TRUE) :
        n \in {Str("staff"), Undefined}}
    \cup {Call("createChannel", [NoArgs EXCEPT !.name = n, !.type = ty,
                                               !.categoryId = c], TRUE) :
            n \in {Str(" chat "), Undefined, Num(5)},
            ty \in {Str("Voice"), Str("stage"), Undefined, Num(1)},
            c \in {Undefined}}
    \cup {Call("createChannel", [NoArgs EXCEPT !.name = Str("chat"),
                                               !.type = Str("text"),
                                               !.categoryId = c], TRUE) :
            c \in {Str("admin"), Str("general"), Str("nope"), Num(502),
                   Str("502"), Str("503"), Str("ADM")}}
    \cup {Call("deleteChannel", [NoArgs EXCEPT !.channelId = c], TRUE) :
            c \in {Str("general"), Str("500"), Str("503"), Str("nope"), Undefined}}
    \cup {Call("createEmbed", [NoArgs EXCEPT !.channelId = c, !.title = ti,
                                             !.description = Str("text")], TRUE) :
            c \in {Undefined, Str("news"), Str("lounge")},
            ti \in {Str("Rules"), Undefined}}

DeleteCalls ==
    {Call("deleteMessages", [NoArgs EXCEPT !.amount = a, !.channelId = c], TRUE) :
        a \in {Str("5"), Num(100), Str("0"), Str("abc"), Undefined, Num(150)},
        c \in {Undefined, Str("lounge")}}

UnknownCalls ==
    {Call(n, ForUser(u), g) :
        n \in {"unmuteUser", "fooBar"},
        u \in {Undefined, Str("11"), Str("<@22>"), Str("ghost"), Num(7)},
        g \in BOOLEAN}

ExecCalls ==
    ModerationCalls \cup LedgerCalls \cup ChannelCalls \cup DeleteCalls
        \cup UnknownCalls

(***************************************************************************)
(* The executor, one invocation at a time, over the sampled calls.         *)
(***************************************************************************)
\* the platform with one thing wrong at a time
ExecEnvironments ==
    BotSamples \cup MemberSamples
        \cup {Nominal, [Nominal EXCEPT !.mutation = FALSE]}

\* bulkDelete is reached by deleteMessages only
BulkFor(call) ==
    IF ToLower(call.name) = "deletemessages" THEN BulkOutcomes ELSE {"all"}

\* the platform during the turns of the batch loop
BatchEnvironments ==
    {Nominal, [Nominal EXCEPT !.me = FALSE],
     [Nominal EXCEPT !.perms = AllPermissions \ {"ManageMessages"}]}

BatchStep(t) ==
    \/ \E ok \in BOOLEAN : DeleteReplied(t, ok)
    \/ \E e \in BatchEnvironments, bulk \in BulkOutcomes :
            DeleteBatchDone(t, e, bulk)

NextExec ==
    \/ \E call \in ExecCalls, e \in ExecEnvironments :
            \E bulk \in BulkFor(call) : HandleFunctionCall(1, call, e, bulk)
    \/ LedgerStep(1)
    \/ BatchStep(1)

SpecExec == InitLedger /\ [][NextExec]_vars

(***************************************************************************)
(* Batched deletions, with the scheduling of the event loop: an await      *)
(* whose promise has settled is resumed.                                   *)
(***************************************************************************)
BatchAmounts == {Str("101"), Num(250), Num(1000), Str("1500")}

BatchCalls ==
    {Call("deleteMessages", [NoArgs EXCEPT !.amount = a], TRUE) :
        a \in BatchAmounts}

NextDelete ==
    \/ \E call \in BatchCalls, e \in BatchEnvironments :
            HandleFunctionCall(1, call, e, "all")
    \/ BatchStep(1)
    \/ Settled(1)

SpecDelete ==
    /\ InitLedger
    /\ [][NextDelete]_vars
    /\ WF_vars(BatchStep(1))

(***************************************************************************)
(* Bans, over the values of deleteMessageDays.                             *)
(***************************************************************************)
DaysSamples ==
    {Undefined, Str("3"), Str("-2"), Str("abc")}
        \cup {Num(d) : d \in {0 - 5, 0 - 1, 0, 1, 3, 6, 7, 8, 99}}

BanCalls ==
    {Call("banUser", [ForUser(u) EXCEPT !.deleteMessageDays = d], TRUE) :
        u \in {Str("11"), Str("<@22>")}, d \in DaysSamples}

NextBan ==
    \/ \E call \in BanCalls, e \in Environments :
            HandleFunctionCall(1, call, e, "all")
    \/ Settled(1)

SpecBan == InitLedger /\ [][NextBan]_vars

(***************************************************************************)
(* Claims about the executor.                                              *)
(***************************************************************************)
ViaExecutor(t) == task[t].op = "handleFunctionCall"

Ended(t) == task[t].pc \in {"done", "threw"}

CatalogNames ==
    {"kickuser", "banuser", "muteuser", "filtersettings", "warnuser",
     "createcategory", "createchannel", "deletechannel", "deletemessages",
     "createembed"}

\* C1, as claimed: every call whose name is not, case-insensitively, one of
\* the ten catalog actions ends with "Error: Unknown function '<name>'.",
\* whatever its arguments, and has issued no platform mutation.
C1_UnknownNameRejected ==
    \A t \in TaskIds :
        (ViaExecutor(t) /\ Ended(t) /\ task[t].inGuild
            /\ ToLower(task[t].name) \notin CatalogNames) =>
            /\ task[t].pc = "done"
            /\ task[t].result = "Error: Unknown function '" \o task[t].name \o "'."
            /\ task[t].calls = <<>>

\* C5, as claimed: handleFunctionCall never throws to its caller, for every
\* call and every failure of a fetch or a mutation made while it runs.
C5_NeverThrows ==
    \A t \in TaskIds : ViaExecutor(t) => task[t].pc # "threw"

\* the permission a method of the ModerationService asks the bot to hold
RequiredPermission(method) ==
    CASE method = "kickUser" -> "KickMembers"
      [] method = "banUser" -> "BanMembers"
      [] method = "muteUser" -> "ModerateMembers"
      [] method \in {"createCategory", "createChannel", "deleteChannel"} ->
            "ManageChannels"
      [] method = "deleteMessages" -> "ManageMessages"
      [] method = "createEmbed" -> "SendMessages"

PermissionError(method) ==
    "Error: I don't have permission to "
        \o (CASE method = "kickUser" -> "kick members"
              [] method = "banUser" -> "ban members"
              [] method = "muteUser" -> "timeout members"
              [] method \in {"createCategory", "createChannel", "deleteChannel"} ->
                    "manage channels"
              [] method = "deleteMessages" -> "manage messages"
              [] method = "createEmbed" -> "send messages")
        \o "."

Preflighted ==
    {"kickUser", "banUser", "muteUser", "createCategory", "createChannel",
     "deleteChannel", "deleteMessages", "createEmbed"}

\* the bot's member record was read and lacks the permission
Lacks(e, permission) == e.guild /\ e.me /\ permission \notin e.perms

\* C6, amended: each of kickUser, banUser, muteUser, createCategory,
\* createChannel, deleteChannel, deleteMessages and createEmbed returns its
\* permission error and issues no platform mutation when the bot's member
\* record lacks the permission the method requires.
C6_PermissionPreflight ==
    \A t \in TaskIds :
        (task[t].svc.method \in Preflighted
            /\ Lacks(task[t].env, RequiredPermission(task[t].svc.method))) =>
            /\ ~task[t].svc.out.threw
            /\ task[t].svc.out.res = PermissionError(task[t].svc.method)
            /\ task[t].svc.out.calls = <<>>

C6_Witness ==
    \E t \in TaskIds :
        /\ task[t].svc.method = "deleteMessages"
        /\ Lacks(task[t].env, "ManageMessages")
        /\ task[t].pc = "done"
        /\ task[t].result = "Error: I don't have permission to manage messages."

\* C6, as claimed: every mutating action, the warning that escalates to a
\* timeout included, issues no platform mutation when the bot's member
\* record lacks the permission the mutation requires.
C6_EveryMutatingAction ==
    \A t \in TaskIds :
        /\ (task[t].svc.method \in Preflighted
                /\ Lacks(task[t].env, RequiredPermission(task[t].svc.method))) =>
                task[t].svc.out.calls = <<>>
        /\ (task[t].svc.method = "warnUser"
                /\ Lacks(task[t].env, "ModerateMembers")) =>
                task[t].calls = <<>>

HierarchyError(method, username) ==
    "Error: I cannot "
        \o (CASE method = "kickUser" -> "kick"
              [] method = "banUser" -> "ban"
              [] method = "muteUser" -> "timeout")
        \o " " \o username \o " due to permission hierarchy."

Flagged(e, method) ==
    CASE method = "kickUser" -> e.kickable
      [] method = "banUser" -> e.bannable
      [] method = "muteUser" -> e.moderatable

\* C7, amended: kickUser, banUser and muteUser issue their kick, ban or
\* timeout only when the platform reports the resolved member as kickable,
\* bannable or moderatable; with the flag false, a call that reached a
\* member returns the hierarchy error, and no mutation is issued.
C7_HierarchyBeforeMutation ==
    \A t \in TaskIds :
        LET m == task[t].svc.method
            out == task[t].svc.out
        IN  (m \in {"kickUser", "banUser", "muteUser"}
                /\ ~Flagged(task[t].env, m)) =>
                /\ out.calls = <<>>
                /\ \/ out.threw
                   \/ out.res = "Error: I cannot find this server."
                   \/ out.res = PermissionError(m)
                   \/ StartsWith(out.res, "Error: Could not find user ")
                   \/ \E i \in 1..Len(Members) :
                        out.res = HierarchyError(m, Members[i].username)

C7_Witness ==
    \E t \in TaskIds :
        /\ task[t].svc.method = "banUser"
        /\ ~task[t].env.bannable
        /\ task[t].pc = "done"
        /\ task[t].result = "Error: I cannot ban bob due to permission hierarchy."
        /\ task[t].calls = <<>>

\* C7, as claimed: every kick, ban or timeout issued by an operation was
\* preceded, in that operation, by the platform reporting the target as
\* kickable, bannable or moderatable.
C7_EveryMutationAfterFlag ==
    \A t \in TaskIds : \A i \in 1..Len(task[t].calls) :
        LET c == task[t].calls[i]
        IN  /\ c.op = "kick" => task[t].env.kickable
            /\ c.op = "ban" => task[t].env.bannable
            /\ c.op = "timeout" => task[t].env.moderatable

(***************************************************************************)
(* Claims about batched deletions.                                         *)
(***************************************************************************)
Batched(t) ==
    /\ ViaExecutor(t)
    /\ ToLower(task[t].name) = "deletemessages"
    /\ task[t].loop.max > 0

BulkDeletes(t) ==
    {i \in 1..Len(task[t].calls) : task[t].calls[i].op = "bulkDelete"}

InBatchLoop(t) == task[t].pc \in {"del_reply", "del_batch"}

C8_Bounded ==
    \A t \in TaskIds : Batched(t) =>
        LET amount == ParseInt(task[t].args.amount)
            ceiling == IF amount < 1000 THEN amount ELSE 1000
            most == (ceiling + 99) \div 100
            lp == task[t].loop
        IN  /\ amount > 100
            /\ \A i \in 1..Len(lp.asks) : lp.asks[i] \in 1..100
            /\ \A i \in BulkDeletes(t) : task[t].calls[i].n \in 1..100
            /\ Len(lp.asks) <= most
            /\ Cardinality(BulkDeletes(t)) <= Len(lp.asks)
            /\ lp.i = Len(lp.asks)
            /\ lp.total <= ceiling
            /\ lp.sum <= ceiling

BatchFailed(t) ==
    /\ Batched(t)
    /\ task[t].loop.asks # <<>>
    /\ ~task[t].svc.out.threw
    /\ Includes(task[t].loop.last, "Error")

C10_SecondsInRange ==
    \A t \in TaskIds : \A i \in 1..Len(task[t].calls) :
        task[t].calls[i].op = "ban" => task[t].calls[i].n \in 0..604800

(***************************************************************************)
(* FunctionParser.parseFunctionCall.  The regular expressions are matched  *)
(* as the engine matches them: leftmost, greedy, anchored where they are   *)
(* anchored.  \s is a blank in the texts of the model.                      *)
(***************************************************************************)
\* \w
WordChars ==
    Digits \cup DOMAIN Lowers \cup {Lowers[c] : c \in DOMAIN Lowers} \cup {"_"}

RECURSIVE WordRun(_)
\* the longest run of \w that s begins with
WordRun(s) ==
    IF s # "" /\ Head(s) \in WordChars THEN Head(s) \o WordRun(Tail(s)) ELSE ""

\* s from position i on
From(s, i) == SubSeq(s, i, Len(s))

\* (the amount read as a number and written back)
ShorthandAmountAsNumber(content) ==
    LET s == Trim(content)
        run == DigitRun(StripLeading(From(s, 7), " "))
    IN  IF /\ StartsWith(ToLower(s), "delete")
           /\ run # ""
           /\ ToLower(StripLeading(From(StripLeading(From(s, 7), " "),
                                        Len(run) + 1), " ")) = "messages"
        THEN ToString(ParseIntText(run)) ELSE ""

\* /^delete\s+(\d+)\s+messages$/i on the trimmed content: the digits, "" for
\* no match
ShorthandAmount(content) ==
    LET s == Trim(content)
        afterVerb == From(s, 7)
        beforeRun == StripLeading(afterVerb, " ")
        run == DigitRun(beforeRun)
        afterRun == From(beforeRun, Len(run) + 1)
        noun == StripLeading(afterRun, " ")
    IN  IF /\ StartsWith(ToLower(s), "delete")
           /\ Len(beforeRun) < Len(afterVerb)
           /\ run # ""
           /\ Len(noun) < Len(afterRun)
           /\ ToLower(noun) = "messages"
        THEN run ELSE ""

\* /^(\w+)\s*\(\s*\{([^}]+)\}\s*\)$/ on the trimmed content:
\* [ok, name, body]
ObjectNotation(content) ==
    LET s == Trim(content)
        name == WordRun(s)
        open == StripLeading(From(s, Len(name) + 1), " ")
        brace == StripLeading(From(open, 2), " ")
        close == IndexOf(brace, "}", 2)
        body == SubSeq(brace, 2, close - 1)
        tail == StripLeading(From(brace, close + 1), " ")
    IN  IF /\ name # ""
           /\ open # "" /\ Head(open) = "("
           /\ brace # "" /\ Head(brace) = "{"
           /\ close > 2
           /\ tail = ")"
        THEN [ok |-> TRUE, name |-> name, body |-> body]
        ELSE [ok |-> FALSE, name |-> "", body |-> ""]

\* (the pattern without its closing anchor)
CallNotationOpenEnded(content) ==
    LET s == Trim(content)
        name == WordRun(s)
        open == StripLeading(From(s, Len(name) + 1), " ")
        close == IndexOf(open, ")", 2)
    IN  IF name # "" /\ open # "" /\ Head(open) = "(" /\ close # 0
        THEN [ok |-> TRUE, name |-> name, body |-> SubSeq(open, 2, close - 1)]
        ELSE [ok |-> FALSE, name |-> "", body |-> ""]

\* /^(\w+)\s*\(([^)]*)\)$/ on the trimmed content: [ok, name, body]
CallNotation(content) ==
    LET s == Trim(content)
        name == WordRun(s)
        open == StripLeading(From(s, Len(name) + 1), " ")
        close == IndexOf(open, ")", 2)
    IN  IF /\ name # ""
           /\ open # "" /\ Head(open) = "("
           /\ close # 0 /\ close = Len(open)
        THEN [ok |-> TRUE, name |-> name, body |-> SubSeq(open, 2, close - 1)]
        ELSE [ok |-> FALSE, name |-> "", body |-> ""]

\* blanks skipped from position i of s: the position of the next non-blank
RECURSIVE SkipBlanks(_, _)
SkipBlanks(s, i) ==
    IF i <= Len(s) /\ SubSeq(s, i, i) = " " THEN SkipBlanks(s, i + 1) ELSE i

\* one match of /(\w+)\s*:\s*(?:"([^"]*)"|(\S[^,]*))(?:,|$)/ that starts at
\* position p of s: [ok, key, value, next], value the quoted text or the
\* trimmed unquoted one, next the position after the match
ParamAt(s, p) ==
    LET key == WordRun(From(s, p))
        colon == SkipBlanks(s, p + Len(key))
        v == SkipBlanks(s, colon + 1)
        quote == IndexOf(s, "\"", v + 1)
        quoted == /\ v <= Len(s) /\ SubSeq(s, v, v) = "\""
                  /\ quote # 0
                  /\ (quote = Len(s) \/ SubSeq(s, quote + 1, quote + 1) = ",")
        comma == IndexOf(s, ",", v + 1)
        end == IF comma = 0 THEN Len(s) ELSE comma - 1
    IN  IF key = "" \/ colon > Len(s) \/ SubSeq(s, colon, colon) # ":"
            \/ v > Len(s)
        THEN [ok |-> FALSE, key |-> "", value |-> "", next |-> p]
        ELSE IF quoted
        THEN [ok |-> TRUE, key |-> key, value |-> SubSeq(s, v + 1, quote - 1),
              next |-> IF quote = Len(s) THEN quote + 1 ELSE quote + 2]
        ELSE [ok |-> TRUE, key |-> key, value |-> Trim(SubSeq(s, v, end)),
              next |-> end + 2]

\* args[key] = value, for the keys the executor reads
Put(args, key, value) ==
    IF key \in DOMAIN args THEN [args EXCEPT ![key] = Str(value)] ELSE args

RECURSIVE ParseParams(_, _, _)
\* the while loop over paramRegex.exec(argsString), from lastIndex p
ParseParams(s, p, args) ==
    IF p > Len(s) THEN args
    ELSE LET m == ParamAt(s, p)
         IN  IF m.ok THEN ParseParams(s, m.next, Put(args, m.key, m.value))
             ELSE ParseParams(s, p + 1, args)

RECURSIVE Split(_, _)
\* argsString.split(c)
Split(s, c) ==
    LET at == IndexOf(s, c, 1)
    IN  IF at = 0 THEN <<s>>
        ELSE <<SubSeq(s, 1, at - 1)>> \o Split(From(s, at + 1), c)

\* parseFunctionCall
ParseFunctionCall(content) ==
    LET amount == ShorthandAmount(content)
        object == ObjectNotation(content)
        call == CallNotation(content)
        params == Split(call.body, ",")
    IN  IF amount # ""
        THEN [matched |-> TRUE, form |-> "shorthand", name |-> "deleteMessages",
              args |-> [NoArgs EXCEPT !.amount = Str(amount)]]
        ELSE IF object.ok
        THEN [matched |-> TRUE, form |-> "object", name |-> object.name,
              args |-> ParseParams(object.body, 1, NoArgs)]
        ELSE IF ~call.ok THEN NoCall
        ELSE IF /\ ToLower(call.name) = "deletemessages"
                /\ Len(params) <= 2
                /\ ~Includes(call.body, ":")
        THEN [matched |-> TRUE, form |-> "call", name |-> "deleteMessages",
              args |-> IF Len(params) = 1
                       THEN [NoArgs EXCEPT !.amount = Str(Trim(params[1]))]
                       ELSE [NoArgs EXCEPT !.channelId = Str(Trim(params[1])),
                                           !.amount = Str(Trim(params[2]))]]
        ELSE [matched |-> TRUE, form |-> "call", name |-> call.name,
              args |-> ParseParams(call.body, 1, NoArgs)]

(***************************************************************************)
(* MessageHandler.handleMessage and AIService.generateResponse.  A task    *)
(* that handles a message keeps the handler's position in hpc: "exec" at   *)
(* the await of handleFunctionCall, "ai" at the await of generateResponse, *)
(* "reply" at a message.reply inside the try, "final" at the one of the    *)
(* catch block, then "done", "threw" (the rejection leaves handleMessage)  *)
(* or "ignored".  delivered counts the replies the platform accepted,      *)
(* faults the awaits of the handler's collaborators that were rejected.    *)
(***************************************************************************)
\* message.client.user.id
BotId == "999"

\* botConfig.commandPrefix
CommandPrefix == "agentic"

\* character.greetingMessage
GreetingMessage ==
    "Hi there! I'm Agentic, your assistant! How can I brighten your day today? :)"

\* character.errorMessages.general
GeneralError ==
    "Oops! Even assistants have their off moments! I ran into a little hiccup while processing your request. Let's try again, shall we? :)"

\* character.errorMessages.aiFailure
AiFailure ==
    "Oh no! My circuits are having a bit of trouble connecting right now. Let's try again in a moment - I'm always happy to help when I'm back online! :)"

\* (the prefix compared as written)
HasPrefixExact(content) == StartsWith(content, CommandPrefix)

\* message.content.toLowerCase().startsWith(commandPrefix.toLowerCase())
HasPrefix(content) == StartsWith(ToLower(content), ToLower(CommandPrefix))

\* botConfig.allowMentionTrigger && message.mentions.users.has(client.user.id)
IsMentioned(msg) == msg.allow /\ msg.mentioned

\* content.replace(new RegExp(`<@!?${id}>`), ""): the leftmost mention of
\* the bot is removed
RemoveMention(content) ==
    LET plain == "<@" \o BotId \o ">"
        bang == "<@!" \o BotId \o ">"
        a == IndexOf(content, plain, 1)
        b == IndexOf(content, bang, 1)
        at == IF a = 0 THEN b ELSE IF b = 0 THEN a ELSE IF a < b THEN a ELSE b
        len == IF at = a THEN Len(plain) ELSE Len(bang)
    IN  IF at = 0 THEN content
        ELSE SubSeq(content, 1, at - 1) \o From(content, at + len)

\* the user's query, as extracted at the head of the try
ExtractQuery(msg) ==
    IF HasPrefix(msg.content)
    THEN Trim(From(msg.content, Len(CommandPrefix) + 1))
    ELSE Trim(RemoveMention(msg.content))

\* if (query.toLowerCase().startsWith("agentic")) query = query.slice(7).trim()
StripAgentic(query) ==
    IF StartsWith(ToLower(query), "agentic") THEN Trim(From(query, 8)) ELSE query

RECURSIVE NaturalDelete(_, _)
\* query.match(/delete\s+(\d+)\s+messages/i)[1] searched from position i,
\* "" for no match
NaturalDelete(query, i) ==
    LET at == IndexOf(ToLower(query), "delete", i)
        afterVerb == From(query, at + 6)
        beforeRun == StripLeading(afterVerb, " ")
        run == DigitRun(beforeRun)
        afterRun == From(beforeRun, Len(run) + 1)
        noun == StripLeading(afterRun, " ")
    IN  IF at = 0 THEN ""
        ELSE IF /\ Len(beforeRun) < Len(afterVerb)
                /\ run # ""
                /\ Len(noun) < Len(afterRun)
                /\ StartsWith(ToLower(noun), "messages")
        THEN run
        ELSE NaturalDelete(query, at + 1)

\* moderationKeywords
ModerationKeywords ==
    {"kick", "ban", "mute", "timeout", "remove", "moderate", "moderation",
     "admin", "administrator", "create", "channel", "category", "delete",
     "message", "embed", "server", "manage", "setup", "purge"}

\* (the keywords looked for in the query as written)
DetectModerationCommandExact(query) ==
    \E keyword \in ModerationKeywords : Includes(query, keyword)

\* (a keyword looked for at the start of the query only)
DetectModerationCommandAtStart(query) ==
    \E keyword \in ModerationKeywords : StartsWith(ToLower(query), keyword)

\* detectModerationCommand
DetectModerationCommand(query) ==
    \E keyword \in ModerationKeywords : Includes(ToLower(query), keyword)

\* the tools generateResponse puts in the request
ToolsSent(enableModeration, enableServerTools) ==
    enableModeration \/ enableServerTools

\* the five schemas moderationTools.ts declares itself, by name
ModerationSchemas ==
    <<"kickUser", "banUser", "muteUser", "filterSettings", "warnUser">>

\* (the list without its last schema)
ServerManagementToolsShort ==
    <<"createCategory", "createChannel", "deleteChannel", "deleteMessages">>

\* serverManagementTools, by name
ServerManagementTools ==
    <<"createCategory", "createChannel", "deleteChannel", "deleteMessages",
      "createEmbed">>

\* export const moderationTools = [..., ...serverManagementTools]
ModerationTools == ModerationSchemas \o ServerManagementTools

\* this.serverTools
ServerTools == ServerManagementTools

\* this.allTools = [...this.moderationTools, ...this.serverTools]
AllTools == ModerationTools \o ServerTools

\* requestOptions.tools, by name; none when the key is not set
Tools(enableModeration, enableServerTools) ==
    IF enableModeration /\ enableServerTools THEN AllTools
    ELSE IF enableModeration THEN ModerationTools
    ELSE IF enableServerTools THEN ServerTools
    ELSE <<>>

\* a tool call of the answer: its name, and its arguments text as the object
\* it denotes when it is JSON
ToolCall(name, json, args) == [name |-> name, json |-> json, args |-> args]

\* what the language model's API answered: the call failed, or it resolved
\* with no choice, with text, with blank text, or with tool calls
NoAnswer == [kind |-> "failure", content |-> "", toolCalls |-> <<>>]

\* an AIResponse: content and the optional functionCall
Response(content, hasCall, name, args) ==
    [content |-> content, hasCall |-> hasCall, name |-> name, args |-> args]

\* (a failure of the request answered with the tool call of the answer)
GenerateResponseOnFailureCalls(answer) ==
    IF answer.kind = "failure"
    THEN Response(AiFailure, TRUE, "deleteMessages",
                  [NoArgs EXCEPT !.amount = Str("5")])
    ELSE IF answer.kind = "call"
    THEN Response(answer.content, TRUE, answer.toolCalls[1].name,
                  answer.toolCalls[1].args)
    ELSE Response(answer.content, FALSE, "", NoArgs)

\* (a tool call whose arguments are no JSON dropped from the response)
GenerateResponseDiscarding(answer) ==
    CASE answer.kind = "failure" -> Response(AiFailure, FALSE, "", NoArgs)
      [] answer.kind = "empty" ->
            Response("No response generated", FALSE, "", NoArgs)
      [] answer.kind = "call" /\ answer.toolCalls[1].json ->
            Response(answer.content, TRUE, answer.toolCalls[1].name,
                     answer.toolCalls[1].args)
      [] OTHER -> Response(answer.content, FALSE, "", NoArgs)

\* (the last of the proposed tool calls taken)
LastToolCall(toolCalls) == toolCalls[Len(toolCalls)]

\* message.toolCalls[0]
FirstToolCall(toolCalls) == toolCalls[1]

\* let args = {}; try { args = JSON.parse(toolCall.function.arguments) }
\* catch { }
ParseArguments(toolCall) == IF toolCall.json THEN toolCall.args ELSE NoArgs

\* generateResponse once chat.complete has settled, with processResponse
GenerateResponse(answer) ==
    CASE answer.kind = "failure" -> Response(AiFailure, FALSE, "", NoArgs)
      [] answer.kind = "empty" ->
            Response("No response generated", FALSE, "", NoArgs)
      [] answer.kind = "call" ->
            LET toolCall == FirstToolCall(answer.toolCalls)
            IN  Response(answer.content, TRUE, toolCall.name,
                         ParseArguments(toolCall))
      [] OTHER -> Response(answer.content, FALSE, "", NoArgs)

\* for deletemessages without a channelId, arguments.channelId =
\* message.channel.id
WithCurrentChannel(name, args) ==
    IF ToLower(name) = "deletemessages" /\ ~Truthy(args.channelId)
    THEN [args EXCEPT !.channelId = Str(MessageChannel)] ELSE args

\* await message.reply(text), from inside the try
Reply(tk, text) == [tk EXCEPT !.hpc = "reply", !.pending = text]

\* result && result.trim() ? result : fallback
ResultOr(result, fallback) == IF Trim(result) # "" THEN result ELSE fallback
\* the reply used when the executor's result is blank, by the way the call
\* was reached
Fallback(tk) ==
    IF tk.route = "natural"
    THEN "Successfully deleted " \o ToString(ParseIntText(tk.args.amount.s))
            \o " messages from this channel."
    ELSE "Command executed successfully."

\* await this.functionExecutor.handleFunctionCall(call, message)
Await(tk, route, name, args, e, bulk) ==
    [Execute(tk, Call(name, args, tk.msg.inGuild), e, bulk)
        EXCEPT !.hpc = "exec", !.route = route]

\* (the author not looked at)
AuthorIsBotNever(msg) == FALSE

\* message.author.bot
AuthorIsBot(msg) == msg.bot

\* handleMessage from the event to its first await or to its return
HandleMessage(t, msg, e, bulk) ==
    /\ task[t].hpc = ""
    /\ task[t].pc = "idle"
    /\ LET base == [IdleTask EXCEPT !.op = "handleMessage", !.msg = msg]
           extracted == ExtractQuery(msg)
           query == StripAgentic(extracted)
           parsed == ParseFunctionCall(query)
           digits == NaturalDelete(query, 1)
           amount == ParseIntText(digits)
           tk == [base EXCEPT !.query = query, !.parsed = parsed]
           isModerationCommand == DetectModerationCommand(query)
       IN  task' = [task EXCEPT ![t] =
                IF AuthorIsBot(msg) THEN [base EXCEPT !.hpc = "ignored"]
                ELSE IF ~(HasPrefix(msg.content) \/ IsMentioned(msg))
                THEN [base EXCEPT !.hpc = "ignored"]
                ELSE IF extracted = "" THEN Reply(base, GreetingMessage)
                ELSE IF parsed.matched
                THEN Await(tk, "direct", parsed.name,
                           WithCurrentChannel(parsed.name, parsed.args), e, bulk)
                ELSE IF digits # "" /\ (amount = NaN \/ amount <= 0)
                THEN Reply([tk EXCEPT !.route = "natural"],
                           "Error: Amount must be a positive number")
                ELSE IF digits # ""
                THEN Await(tk, "natural", "deleteMessages",
                           [NoArgs EXCEPT !.channelId = Str(MessageChannel),
                                          !.amount = Str(ToString(amount))],
                           e, bulk)
                ELSE [tk EXCEPT !.hpc = "ai",
                                !.ai = [asked |-> 1, query |-> query,
                                        tools |-> ToolsSent(isModerationCommand,
                                                            isModerationCommand),
                                        answer |-> "",
                                        sent |-> Tools(isModerationCommand,
                                                       isModerationCommand),
                                        proposed |-> <<>>]]]
    /\ UNCHANGED <<settings, disk, now, hist, tfail>>

\* generateResponse settles and handleMessage goes on to its next await
AiAnswered(t, answer, e, bulk) ==
    /\ task[t].hpc = "ai"
    /\ answer.kind = "call" => task[t].ai.tools
    /\ LET response == GenerateResponse(answer)
           tk == [task[t] EXCEPT !.ai.answer = answer.kind,
                                 !.ai.proposed = answer.toolCalls]
       IN  task' = [task EXCEPT ![t] =
                IF response.hasCall
                THEN Await(tk, "model", response.name,
                           WithCurrentChannel(response.name, response.args),
                           e, bulk)
                ELSE IF Trim(response.content) # ""
                THEN Reply(tk, response.content)
                ELSE Reply(tk, GeneralError)]
    /\ UNCHANGED <<settings, disk, now, hist, tfail>>

\* handleFunctionCall has settled: its result is replied, its exception is
\* caught by the handler's catch
HandlerResumed(t) ==
    /\ task[t].hpc = "exec"
    /\ task[t].pc \in {"done", "threw"}
    /\ task' = [task EXCEPT ![t] =
            IF @.pc = "threw"
            THEN [@ EXCEPT !.hpc = "final", !.pending = GeneralError]
            ELSE Reply(@, ResultOr(@.result, Fallback(@)))]
    /\ UNCHANGED <<settings, disk, now, hist, tfail>>

\* a message.reply of the try settles; its rejection is caught
ReplyDone(t, ok) ==
    /\ task[t].hpc = "reply"
    /\ task' = [task EXCEPT ![t] =
            IF ok THEN [@ EXCEPT !.hpc = "done", !.delivered = @ + 1]
            ELSE [@ EXCEPT !.hpc = "final", !.pending = GeneralError,
                           !.faults = @ + 1]]
    /\ UNCHANGED <<settings, disk, now, hist, tfail>>

\* the message.reply of the catch block settles; its rejection leaves
\* handleMessage
FinalReplyDone(t, ok) ==
    /\ task[t].hpc = "final"
    /\ task' = [task EXCEPT ![t] =
            IF ok THEN [@ EXCEPT !.hpc = "done", !.delivered = @ + 1]
            ELSE [@ EXCEPT !.hpc = "threw", !.faults = @ + 1]]
    /\ UNCHANGED <<settings, disk, now, hist, tfail>>

\* handleMessage is over
HandlerSettled(t) ==
    /\ task[t].hpc \in {"done", "threw", "ignored"}
    /\ task' = [task EXCEPT ![t] = IdleTask]
    /\ UNCHANGED <<settings, disk, now, hist, tfail>>

(***************************************************************************)
(* Messages and answers the handler's runs draw from.                      *)
(***************************************************************************)
Mention == "<@" \o BotId \o ">"

Contents ==
    {"hello there", "delete 5 messages", "agentic", "Agentic hello there",
     "AGENTIC Delete 5 Messages", "agentic delete 150 messages",
     "agentic delete 0 messages", "agentic please delete 5 messages",
     "agentic please delete 0 messages for me",
     "agentic do not delete 250 messages",
     "agentic kickUser(userId: bob, reason: spam)",
     "agentic deleteMessages(5)", "agentic fooBar(x)",
     "agentic KICK bob", "agentic what is a Server",
     "agentic agentic hello there", "agentic agentic",
     Mention, Mention \o " hello there", "hi <@!" \o BotId \o "> ban bob",
     Mention \o " createEmbed({title: \"Hi\", description: \"all\"})"}

\* a member's message in a guild
Written(content, mentioned, allow) ==
    [content |-> content, bot |-> FALSE, mentioned |-> mentioned,
     inGuild |-> TRUE, allow |-> allow]

\* members' messages in a guild, with and without the bot among the
\* mentions, with and without the mention trigger; a bot's messages; direct
\* messages
Messages ==
    {Written(c, m, a) : c \in Contents, m \in BOOLEAN, a \in BOOLEAN}
        \cup {[Written(c, TRUE, TRUE) EXCEPT !.bot = TRUE] :
                    c \in {"agentic delete 5 messages", Mention \o " hello there"}}
        \cup {[Written(c, FALSE, TRUE) EXCEPT !.inGuild = FALSE] :
                    c \in {"agentic deleteMessages(5)", "agentic hello there",
                           "agentic please delete 5 messages"}}

\* an answer whose message carries tool calls
Proposal(content, toolCalls) ==
    [NoAnswer EXCEPT !.kind = "call", !.content = content,
                     !.toolCalls = toolCalls]

AiAnswers ==
    {NoAnswer,
     [NoAnswer EXCEPT !.kind = "empty"],
     [NoAnswer EXCEPT !.kind = "text", !.content = "Happy to help!"],
     [NoAnswer EXCEPT !.kind = "text", !.content = "  "],
     Proposal("", <<ToolCall("kickUser", TRUE, ForUser(Str("bob")))>>),
     Proposal("", <<ToolCall("kickUser", TRUE, ForUser(Num(7)))>>),
     Proposal("Deleting.",
              <<ToolCall("deleteMessages", TRUE,
                         [NoArgs EXCEPT !.amount = Num(150)])>>),
     Proposal("", <<ToolCall("kickUser", TRUE, ForUser(Str("bob"))),
                    ToolCall("banUser", TRUE, ForUser(Str("11")))>>),
     Proposal("", <<ToolCall("banUser", FALSE, ForUser(Str("alice")))>>),
     Proposal("", <<ToolCall("deleteMessages", FALSE,
                             [NoArgs EXCEPT !.amount = Num(5)]),
                    ToolCall("kickUser", TRUE, ForUser(Str("bob")))>>)}

HandlerEnvironments ==
    {Nominal, [Nominal EXCEPT !.perms = AllPermissions \ {"ManageMessages"}],
     [Nominal EXCEPT !.mutation = FALSE]}

HandlerBulks == {"all", "half", "failed"}

InitHandler ==
    /\ settings = NoDocument
    /\ disk = settings
    /\ now = 0
    /\ task = [t \in TaskIds |-> IdleTask]
    /\ hist = [g \in Guilds |-> [u \in Users |-> NoHistory]]
    /\ tfail = [g \in Guilds |-> [u \in Users |-> FALSE]]

HandlerStep(t) ==
    \/ HandlerResumed(t)
    \/ \E ok \in BOOLEAN : ReplyDone(t, ok)
    \/ \E ok \in BOOLEAN : FinalReplyDone(t, ok)

NextHandler ==
    \/ \E msg \in Messages, e \in HandlerEnvironments, bulk \in HandlerBulks :
            HandleMessage(1, msg, e, bulk)
    \/ \E answer \in AiAnswers, e \in HandlerEnvironments, bulk \in HandlerBulks :
            AiAnswered(1, answer, e, bulk)
    \/ BatchStep(1)
    \/ HandlerStep(1)
    \/ HandlerSettled(1)

SpecHandler ==
    /\ InitHandler
    /\ [][NextHandler]_vars
    /\ WF_vars(BatchStep(1))
    /\ WF_vars(HandlerStep(1))
    /\ WF_vars(\E answer \in AiAnswers : AiAnswered(1, answer, Nominal, "all"))

(***************************************************************************)
(* Claims about the message handler.                                       *)
(***************************************************************************)
\* the task handles a message addressed to the bot
Handling(t) == task[t].hpc \notin {"", "ignored"}

\* C11, as claimed: for every handled message with a non-empty query, a
\* request is made to the language model if and only if the direct parser
\* returned none for the query
C11_ModelIffParserNone ==
    \A t \in TaskIds :
        (Handling(t) /\ task[t].query # "") =>
            (task[t].ai.asked > 0 <=> ~task[t].parsed.matched)

\* a message.reply, a request to the language model or a call of the platform
\* was made for the message
Acted(t) ==
    \/ task[t].delivered > 0
    \/ task[t].pending # ""
    \/ task[t].ai.asked > 0
    \/ task[t].calls # <<>>

\* C12: a message that no bot wrote is processed if and only if its text
\* begins with the prefix "agentic" in any mix of cases, or the bot is among
\* its mentions while the mention trigger is on; a message that meets neither
\* gets no reply, no model request and no platform call
C12_AddressedOnly ==
    \A t \in TaskIds :
        LET msg == task[t].msg
            prefixed == /\ Len(msg.content) >= Len("agentic")
                        /\ ToLower(SubSeq(msg.content, 1, Len("agentic")))
                                = "agentic"
        IN  (task[t].hpc # "" /\ ~msg.bot) =>
                /\ Handling(t) <=> (prefixed \/ (msg.mentioned /\ msg.allow))
                /\ ~Handling(t) => ~Acted(t)

\* C12: the message "Agentic hello there", which does not mention the bot,
\* has been answered
C12_Witness ==
    \E t \in TaskIds :
        /\ task[t].hpc = "done" /\ task[t].delivered = 1
        /\ task[t].msg = Written("Agentic hello there", FALSE, TRUE)

\* C13: when the request to the language model fails, generateResponse
\* still returns: the handler is not sent to its catch block by it, the reply
\* it prepares is the configured AI-failure message, and no function call
\* is executed (no executor run, no platform call) on that turn
C13_FailureAnswered ==
    \A t \in TaskIds :
        task[t].ai.answer = "failure" =>
            /\ task[t].hpc \in {"reply", "final", "done", "threw"}
            /\ task[t].hpc \in {"final", "threw"} => task[t].faults > 0
            /\ task[t].faults = 0 => task[t].pending = AiFailure
            /\ task[t].route = "" /\ task[t].name = ""
            /\ task[t].calls = <<>> /\ task[t].pc = "idle"

\* C13: a failed request has been answered with the AI-failure message
C13_Witness ==
    \E t \in TaskIds :
        /\ task[t].ai.answer = "failure"
        /\ task[t].hpc = "done" /\ task[t].delivered = 1
        /\ task[t].pending = AiFailure

\* C14, as claimed: a message addressed to the bot whose handling has ended
\* with every reply accepted by the platform has received exactly one reply
C14_ExactlyOneReply ==
    \A t \in TaskIds :
        (task[t].hpc = "done" /\ task[t].faults = 0) => task[t].delivered = 1

(***************************************************************************)
(* Claims about the resolution of references.                              *)
(***************************************************************************)
\* C15, as claimed: when the user or channel token of a call is all digits,
\* the member or channel acted on is the one fetched by that id, never one
\* found by the search over names
C15_DigitsDecidedByFetch ==
    \A t \in TaskIds :
        LET tk == task[t]
            acts(ops, token) ==
                \A i \in DOMAIN tk.calls :
                    tk.calls[i].op \in ops => tk.calls[i].target = token
        IN  (ViaExecutor(t) /\ Ended(t)) =>
                /\ (tk.args.userId.t = "string" /\ IsDigits(tk.args.userId.s)) =>
                        acts({"kick", "ban", "timeout"}, tk.args.userId.s)
                /\ (/\ ToLower(tk.name) = "deletechannel"
                    /\ tk.args.channelId.t = "string"
                    /\ IsDigits(tk.args.channelId.s)) =>
                        acts({"deleteChannel"}, tk.args.channelId.s)

\* the executor's resolution and resolveUser, applied to one token
ResolveToken(t, token, e) ==
    /\ task[t].pc = "idle"
    /\ task[t].hpc = ""
    /\ LET pre == PreResolve(e, Str(token))
           r == ResolveUser(e, Str(token))
       IN  task' = [task EXCEPT ![t] =
                [IdleTask EXCEPT !.op = "resolveUser", !.pc = "done", !.env = e,
                                 !.found = [token |-> token,
                                            executor |-> IF pre.done
                                                         THEN pre.out.res
                                                         ELSE pre.userId.s,
                                            service |-> r.member.id]]]
    /\ UNCHANGED <<settings, disk, now, hist, tfail>>

\* names, parts of names and names nobody has
NameTokens ==
    {"alic", "ALIC", "alice", "Alicia", "licia", "bob", "@Bob", "b", "o",
     "ghost", "ali ce", "@"}

NextResolve ==
    \/ \E token \in NameTokens, e \in Environments : ResolveToken(1, token, e)
    \/ Settled(1)

SpecResolve == InitLedger /\ [][NextResolve]_vars

\* C16: for a token that is not a number, both resolutions return the first
\* member, in the order of the cache, whose username or nickname contains
\* the token (or equals it) in lower case; they fail exactly when the cache
\* holds no such member, resolveUser with null and the executor with its
\* not-found error (its failed-to-resolve error when the cache is empty and
\* cannot be filled)
C16_FirstMatchWins ==
    \A t \in TaskIds :
        LET tk == task[t]
            e == tk.env
            bare == StripLeading(tk.found.token, "@")
            lower == ToLower(bare)
            cache == IF e.cached \/ e.fetch THEN Members ELSE <<>>
            has(m) == \/ Includes(ToLower(m.username), lower)
                      \/ (m.nickname # "" /\ Includes(ToLower(m.nickname), lower))
            hits == {i \in DOMAIN cache : has(cache[i])}
            first == CHOOSE i \in hits : \A j \in hits : i <= j
            errors == {"Error: Could not find user '" \o bare \o "' in this server.",
                       "Error: Failed to resolve username '" \o bare \o "'."}
        IN  (tk.op = "resolveUser" /\ ~IsDigits(bare)) =>
                /\ hits = {} => tk.found.service = ""
                /\ hits # {} => tk.found.service = cache[first].id
                /\ (e.guild /\ hits = {}) => tk.found.executor \in errors
                /\ (e.guild /\ hits # {}) => tk.found.executor = cache[first].id

\* C16: with alice before Alicia in the cache, "alic" has resolved to alice
\* in both resolutions
C16_Witness ==
    \E t \in TaskIds :
        /\ task[t].op = "resolveUser"
        /\ task[t].found = [token |-> "alic", executor |-> "11", service |-> "11"]

\* C17: a request to the language model carries the tool catalog if and
\* only if the query, in lower case, contains one of the administrative
\* keywords; a query with none is sent with no tool declarations
C17_ToolsIffKeyword ==
    \A t \in TaskIds :
        task[t].ai.asked > 0 =>
            (task[t].ai.tools <=>
                \E keyword \in ModerationKeywords :
                    \E i \in 1..Len(task[t].ai.query) :
                        /\ i + Len(keyword) - 1 <= Len(task[t].ai.query)
                        /\ ToLower(SubSeq(task[t].ai.query, i,
                                          i + Len(keyword) - 1)) = keyword)

\* C17: the query "KICK bob" has been sent with the tool catalog
C17_Witness ==
    \E t \in TaskIds :
        /\ task[t].ai.asked > 0
        /\ task[t].ai.query = "KICK bob"
        /\ task[t].ai.tools

(***************************************************************************)
(* Claims about the filter settings.                                       *)
(***************************************************************************)
\* C18: a guild's enabled flag changes only in the step in which
\* setFilterSettings has found its caller to be an administrator of that
\* guild; a caller who is not one gets the administrators-only error
C18_OnlyAdministratorsToggle ==
    /\ [](\A t \in TaskIds :
            (task[t].svc.method = "setFilterSettings" /\ task[t].caller = "member") =>
                /\ task[t].pc = "done"
                /\ task[t].result =
                        "Error: Only administrators can manage filter settings.")
    /\ [][\A g \in Guilds :
            settings'[g].enabled # settings[g].enabled =>
                \E t \in TaskIds :
                    /\ task[t].pc = "filter_admin"
                    /\ task[t].guild = g
                    /\ task'[t].caller = "admin"
                    /\ settings'[g].enabled = task[t].enabled]_vars

\* C18: a member who is no administrator asked to enable the filter of guild
\* 200, was refused, and the flag is still off
C18_Witness ==
    \E t \in TaskIds :
        /\ task[t].svc.method = "setFilterSettings"
        /\ task[t].caller = "member"
        /\ task[t].guild = "200" /\ task[t].enabled
        /\ task[t].pc = "done"
        /\ ~settings["200"].enabled

(***************************************************************************)
(* FunctionParser.parseFunctionCall over sampled texts.                    *)
(***************************************************************************)
\* parseFunctionCall applied to one text
ParseText(t, text) ==
    /\ task[t].pc = "idle"
    /\ task[t].hpc = ""
    /\ task' = [task EXCEPT ![t] =
            [IdleTask EXCEPT !.op = "parseFunctionCall", !.pc = "done",
                             !.query = text,
                             !.parsed = ParseFunctionCall(text)]]
    /\ UNCHANGED <<settings, disk, now, hist, tfail>>

Cores ==
    {"", "hello there", "delete 5 messages", "DELETE 12 Messages",
     "delete  007   messages", "delete 5messages", "delete5 messages",
     "delete five messages", "delete 5 messages now", "please delete 5 messages",
     "delete 5 message", "delete -5 messages", "delete 5 6 messages",
     "deleteMessages(5)", "deleteMessages(500, 5)", "deletemessages()",
     "deleteMessages(amount: 5)", "deleteMessages({amount: 5})",
     "deleteMessages(1, 2, 3)", "deleteMessages (general,5)",
     "kickUser(userId: bob, reason: spam)",
     "kickUser(userId: \"bob\", reason: \"too, loud\")",
     "kickUser ( { userId : bob } )", "kickUser({})", "kickUser({userId: bob}",
     "kickUser({userId: bob}) now", "kickUser(userId: (bob))",
     "kickUser(userId: bob) please", "(userId: bob)", "kick-user(userId: bob)",
     "kickUser", "kickUser(", "kickUser)", "fooBar(x)", "foo_1()",
     "banUser({userId: bob, reason: x}y)", "kickUser({userId: a}b})",
     "kickUser({reason: a)b})", "kickUser(reason: \"a)b\")"}

\* the texts, with and without blanks around them
Texts ==
    {lead \o core \o trail :
        lead \in {"", " "}, core \in Cores, trail \in {"", "  "}}

NextParser ==
    \/ \E text \in Texts : ParseText(1, text)
    \/ Settled(1)

SpecParser == InitHandler /\ [][NextParser]_vars

(***************************************************************************)
(* Claims about the parser.  The forms are stated here by the positions at *)
(* which a text divides into their parts.                                  *)
(***************************************************************************)
Parsing(t) == task[t].op = "parseFunctionCall" /\ task[t].pc = "done"

\* the characters a..b of s all belong to cs
AllIn(s, a, b, cs) == \A k \in a..b : SubSeq(s, k, k) \in cs

\* the numbers N for which the trimmed text is "delete <N> messages" in any
\* mix of cases: at most one
ShorthandNumbers(text) ==
    LET s == Trim(text)
        noun == Len(s) - Len("messages") + 1
    IN  IF Len(s) < Len("delete 0 messages") THEN {}
        ELSE {SubSeq(s, i, j) : <<i, j>> \in
                {p \in (8..noun - 2) \X (8..noun - 2) :
                    /\ p[1] <= p[2]
                    /\ ToLower(SubSeq(s, 1, 6)) = "delete"
                    /\ AllIn(s, 7, p[1] - 1, {" "})
                    /\ AllIn(s, p[1], p[2], Digits)
                    /\ AllIn(s, p[2] + 1, noun - 1, {" "})
                    /\ ToLower(From(s, noun)) = "messages"}}

\* C19, as claimed: the parser returns the call deleteMessages with the
\* arguments {amount: N}, N a string of digits, exactly when the trimmed
\* text is "delete <N> messages"
C19_ShorthandExactly ==
    \A t \in TaskIds :
        Parsing(t) =>
            ((/\ task[t].parsed.matched
              /\ task[t].parsed.name = "deleteMessages"
              /\ IsDigits(task[t].parsed.args.amount.s)
              /\ task[t].parsed.args =
                    [NoArgs EXCEPT !.amount = Str(task[t].parsed.args.amount.s)])
                <=> ShorthandNumbers(task[t].query) # {})

\* C19, amended: whenever the trimmed text is "delete <N> messages" in any
\* mix of cases, the parser returns deleteMessages with {amount: N}, N the
\* digits as written, from its first test; no other text is answered by
\* that test
C19_ShorthandParsed ==
    \A t \in TaskIds :
        Parsing(t) =>
            /\ \A number \in ShorthandNumbers(task[t].query) :
                    task[t].parsed =
                        [matched |-> TRUE, form |-> "shorthand",
                         name |-> "deleteMessages",
                         args |-> [NoArgs EXCEPT !.amount = Str(number)]]
            /\ task[t].parsed.form = "shorthand" =>
                    ShorthandNumbers(task[t].query) # {}

\* C19: " delete  007   messages" has been parsed, the amount kept as "007"
C19_Witness ==
    \E t \in TaskIds :
        /\ Parsing(t)
        /\ task[t].query = " delete  007   messages"
        /\ task[t].parsed.form = "shorthand"
        /\ task[t].parsed.args.amount = Str("007")

\* the trimmed text is name ( body ) with no ")" in the body
IsCallSyntax(text) ==
    LET s == Trim(text)
        n == Len(s)
    IN  \E w \in 1..n - 2 :
            /\ AllIn(s, 1, w, WordChars)
            /\ \E p \in w + 1..n - 1 :
                    /\ AllIn(s, w + 1, p - 1, {" "})
                    /\ SubSeq(s, p, p) = "("
                    /\ SubSeq(s, n, n) = ")"
                    /\ \A k \in p + 1..n - 1 : SubSeq(s, k, k) # ")"

\* the trimmed text is name ( { body } ) with a body that is not empty and
\* has no "}" in it
IsObjectSyntax(text) ==
    LET s == Trim(text)
        n == Len(s)
    IN  \E w \in 1..n - 5 :
            /\ AllIn(s, 1, w, WordChars)
            /\ \E p \in w + 1..n - 4 :
                    /\ AllIn(s, w + 1, p - 1, {" "})
                    /\ SubSeq(s, p, p) = "("
                    /\ SubSeq(s, n, n) = ")"
                    /\ \E q \in p + 1..n - 3 :
                            /\ AllIn(s, p + 1, q - 1, {" "})
                            /\ SubSeq(s, q, q) = "{"
                            /\ \E r \in q + 2..n - 1 :
                                    /\ SubSeq(s, r, r) = "}"
                                    /\ \A k \in q + 1..r - 1 : SubSeq(s, k, k) # "}"
                                    /\ AllIn(s, r + 1, n - 1, {" "})

\* C20: the parser returns for every text, and returns none exactly when
\* the trimmed text is neither the shorthand, nor the brace-object call
\* syntax, nor the parenthesised call syntax; "hello there" yields none
C20_NoneIffNoForm ==
    \A t \in TaskIds :
        task[t].op = "parseFunctionCall" =>
            /\ task[t].pc = "done"
            /\ ~task[t].parsed.matched <=>
                    /\ ShorthandNumbers(task[t].query) = {}
                    /\ ~IsObjectSyntax(task[t].query)
                    /\ ~IsCallSyntax(task[t].query)
            /\ task[t].query = "hello there" => task[t].parsed = NoCall

\* C20: "hello there" has been parsed and yielded none
C20_Witness ==
    \E t \in TaskIds :
        /\ Parsing(t)
        /\ task[t].query = "hello there"
        /\ ~task[t].parsed.matched

(***************************************************************************)
(* Claims about the order of the preflight steps.                          *)
(***************************************************************************)
\* the service method a user-targeting call of the executor leads to
UserMethod(name) ==
    CASE ToLower(name) = "kickuser" -> "kickUser"
      [] ToLower(name) = "banuser" -> "banUser"
      [] ToLower(name) = "muteuser" -> "muteUser"
      [] OTHER -> ""

\* C21, as claimed: a kickUser, banUser or muteUser call given to the
\* executor with a string userId reports the error of the earliest step that
\* fails, in the order guild, bot permission, target, eligibility: an
\* unknown guild before everything, and a missing bot permission before a
\* user token that cannot be resolved
C21_EarliestStepReported ==
    \A t \in TaskIds :
        LET tk == task[t]
            m == UserMethod(tk.name)
        IN  (/\ ViaExecutor(t) /\ Ended(t) /\ tk.inGuild
             /\ m # "" /\ tk.args.userId.t = "string") =>
                /\ ~tk.env.guild => tk.result = "Error: I cannot find this server."
                /\ Lacks(tk.env, RequiredPermission(m)) =>
                        tk.result = PermissionError(m)

(***************************************************************************)
(* Further claims about the ledger.                                        *)
(***************************************************************************)
\* C22, as claimed: a completed warnUser for a guild the platform client
\* knows has counted the warning (from 1 on a pair with no record), unless
\* the user could not be fetched; whether a settings entry was ever stored
\* for the guild makes no difference
C22_FirstWarningCounted ==
    \A t \in TaskIds :
        (WarnCompleted(t) /\ task[t].env.guild /\ task[t].yielded = 0) =>
            task[t].result = "Error: User not found."

\* the result of warnUser when member.timeout of the escalation rejected
TimeoutNotApplied(u) ==
    "Warning issued to " \o Username(u)
        \o ", but I couldn't apply timeout due to permissions."

\* C23: when the count has reached the threshold and member.timeout of the
\* escalation fails, warnUser returns that the warning was issued but the
\* timeout could not be applied, and the count it incremented stays both in
\* the store and in the settings file (nothing is rolled back).
C23_FailedTimeoutKeepsWarning ==
    [][\A t \in TaskIds :
          (task[t].pc = "warn_timeout" /\ task'[t].pc = "done") =>
              LET g == task[t].guild
                  u == task[t].user
              IN  /\ task[t].yielded >= 3
                  /\ task'[t].result = "Warning issued to " \o Username(u)
                        \o ", but I couldn't apply timeout due to permissions."
                  /\ task'[t].calls = <<EscalationCall(g, u)>>
                  /\ settings'[g].warnings[u].count = task[t].yielded
                  /\ disk'[g].warnings[u].count = task[t].yielded
                  /\ disk'[g].warnings[u].lastWarning =
                        settings'[g].warnings[u].lastWarning]_vars

\* a third warning whose timeout was rejected: the result says so, and the
\* count 3 is in the store and in the file
C23_Witness ==
    \E t \in TaskIds :
        /\ WarnCompleted(t)
        /\ task[t].yielded = 3
        /\ task[t].result = TimeoutNotApplied(task[t].user)
        /\ settings[task[t].guild].warnings[task[t].user].count = 3
        /\ disk[task[t].guild].warnings[task[t].user].count = 3

(***************************************************************************)
(* Further claims about the executor.                                      *)
(***************************************************************************)
\* the arguments the tool declarations list as required, by lowercased name
RequiredArguments(name) ==
    CASE name \in {"kickuser", "banuser"} -> {"userId"}
      [] name = "muteuser" -> {"userId", "duration"}
      [] name = "warnuser" -> {"userId", "reason"}
      [] name = "createchannel" -> {"name", "type"}
      [] name = "deletechannel" -> {"channelId"}
      [] name = "deletemessages" -> {"amount"}
      [] name = "createembed" -> {"channelId", "title", "description"}
      [] OTHER -> {}

\* C24, as claimed: a structured call that lacks one of the required
\* arguments of its action ends with an error result, and no platform
\* mutation has been issued for it
C24_MissingArgumentRejected ==
    \A t \in TaskIds :
        LET tk == task[t]
        IN  (/\ ViaExecutor(t) /\ Ended(t) /\ tk.inGuild
             /\ \E k \in RequiredArguments(ToLower(tk.name)) :
                    tk.args[k] = Undefined) =>
                /\ tk.pc = "done"
                /\ StartsWith(tk.result, "Error")
                /\ tk.calls = <<>>

(***************************************************************************)
(* Further claims about the handler and the language model's answer.       *)
(***************************************************************************)
\* C25, as claimed: the tool declarations sent to the model on an
\* administrative turn carry every action name exactly once; no two of
\* them share a name
C25_ToolNamesUnique ==
    \A t \in TaskIds :
        (task[t].ai.asked > 0 /\ task[t].ai.tools) =>
            LET sent == task[t].ai.sent
            IN  /\ \A name \in CatalogNames :
                        \E i \in 1..Len(sent) : ToLower(sent[i]) = name
                /\ \A i, j \in 1..Len(sent) : sent[i] = sent[j] => i = j

\* the platform calls an action of the catalog can issue, by lowercased name
OpsOf(name) ==
    CASE name = "kickuser" -> {"kick"}
      [] name = "banuser" -> {"ban"}
      [] name = "muteuser" -> {"timeout"}
      [] name = "deletemessages" -> {"bulkDelete", "reply"}
      [] OTHER -> {}

\* C26: when the answer of the model proposes tool calls, one structured
\* call is executed on that turn and it is the first proposed one: the
\* executor ran once, under the name of the first proposal and on its
\* target, and every platform call of the turn belongs to that action; the
\* other proposals leave no trace
C26_FirstProposalOnly ==
    \A t \in TaskIds :
        LET tk == task[t]
            p == tk.ai.proposed
        IN  Len(p) > 0 =>
                /\ tk.route = "model"
                /\ tk.op = "handleFunctionCall"
                /\ tk.name = p[1].name
                /\ p[1].json => /\ tk.args.userId = p[1].args.userId
                                /\ tk.args.amount = p[1].args.amount
                /\ \A i \in 1..Len(tk.calls) :
                        tk.calls[i].op \in OpsOf(ToLower(p[1].name))

\* the model proposed kickUser for bob and then banUser for 11: bob was
\* kicked, nobody was banned, and the one result was replied
C26_Witness ==
    \E t \in TaskIds :
        /\ Len(task[t].ai.proposed) = 2
        /\ task[t].ai.proposed[2].name = "banUser"
        /\ task[t].hpc = "done"
        /\ task[t].delivered = 1
        /\ Len(task[t].calls) = 1
        /\ task[t].calls[1].op = "kick"
        /\ task[t].calls[1].target = "22"
        /\ task[t].pending = "Successfully kicked bob."

\* C27: when the arguments text of the model's tool call is no JSON, the
\* structured call is produced all the same, under the proposed name and
\* with no argument set, and the executor is run on it (the handler having
\* added the current channel for deleteMessages); it is not dropped
C27_UnparsableStillExecuted ==
    \A t \in TaskIds :
        LET tk == task[t]
            p == tk.ai.proposed
        IN  (Len(p) > 0 /\ ~p[1].json) =>
                /\ tk.route = "model"
                /\ tk.op = "handleFunctionCall"
                /\ tk.hpc \in {"exec", "reply", "final", "done", "threw"}
                /\ tk.name = p[1].name
                /\ \A k \in DOMAIN tk.args :
                        tk.args[k] =
                            IF k = "channelId" /\ ToLower(tk.name) = "deletemessages"
                            THEN Str(MessageChannel)
                            ELSE Undefined

\* the arguments of a proposed deleteMessages were no JSON: the executor ran
\* on deleteMessages with no amount, and its error was replied
C27_Witness ==
    \E t \in TaskIds :
        /\ Len(task[t].ai.proposed) > 0
        /\ ~task[t].ai.proposed[1].json
        /\ task[t].name = "deleteMessages"
        /\ task[t].args.amount = Undefined
        /\ task[t].result = "Error: Amount must be a positive number"
        /\ task[t].hpc = "done"
        /\ task[t].delivered = 1

(***************************************************************************)
(* The ledger with two invocations in flight: handlers of two messages     *)
(* interleave at their awaits, and the writes of settings.json they        *)
(* started complete in either order.                                       *)
(***************************************************************************)
InitInterleaved ==
    /\ settings = SetEnabled(NoDocument, "100", TRUE)
    /\ disk = settings
    /\ now = 0
    /\ task = [t \in TaskIds |-> IdleTask]
    /\ hist = [g \in Guilds |-> [u \in Users |-> NoHistory]]
    /\ tfail = [g \in Guilds |-> [u \in Users |-> FALSE]]

NextInterleaved ==
    \E t \in TaskIds :
        \/ WarnUser(t, "100", "11", "spam", Nominal)
        \/ \E b \in BOOLEAN : SetFilterSettings(t, "100", b, Nominal)
        \/ LedgerStep(t)

SpecInterleaved == InitInterleaved /\ [][NextInterleaved]_vars

\* no invocation is between its call and its return
Quiescent == \A t \in TaskIds : task[t].pc \in {"idle", "done", "threw"}

\* C28, as claimed: whenever no warnUser and no setFilterEnabled is in
\* flight, whatever the interleaving of the ones that ran, the settings file
\* holds the in-memory store
C28_QuiescentFileEqualsStore == Quiescent => disk = settings

\* a finished createChannel call of the executor
CreateChannelEnded(t) ==
    /\ ViaExecutor(t) /\ Ended(t) /\ task[t].inGuild
    /\ ToLower(task[t].name) = "createchannel"

\* the createChannel calls to the platform that the invocation issued
ChannelsCreated(t) ==
    {i \in 1..Len(task[t].calls) : task[t].calls[i].op = "createChannel"}

\* C29: a createChannel call with a categoryId creates the channel only under
\* a category-typed channel that the token names (by id or by a part of its
\* name); when it has ended without such a parent an error was returned and
\* no channel was created; and a type that is none of text, voice and
\* announcement creates no channel either, a type given as a string ending
\* with an error result (the invalid-type error when the call has a name)
C29_CategoryAndTypeChecked ==
    \A t \in TaskIds :
        LET tk == task[t]
            token == tk.args.categoryId
            type == tk.args.type
        IN  CreateChannelEnded(t) =>
                /\ Truthy(token) =>
                      /\ \A i \in ChannelsCreated(t) :
                            \E k \in 1..Len(Channels) :
                                /\ Channels[k].type = "category"
                                /\ Channels[k].id = tk.calls[i].text
                                /\ token.t = "string"
                                /\ \/ Channels[k].id = token.s
                                   \/ Includes(ToLower(Channels[k].name),
                                               ToLower(token.s))
                      /\ ChannelsCreated(t) = {} =>
                            tk.pc = "done" /\ StartsWith(tk.result, "Error")
                /\ (Truthy(type) /\ (type.t = "string" =>
                        ToLower(type.s) \notin {"text", "voice", "announcement"})) =>
                      /\ ChannelsCreated(t) = {}
                      /\ type.t = "string" =>
                            /\ tk.pc = "done"
                            /\ StartsWith(tk.result, "Error")
                            /\ Truthy(tk.args.name) =>
                                    StartsWith(tk.result,
                                               "Error: Invalid channel type '")

\* createChannel with categoryId "ADM" has created the channel under the
\* category admin
C29_Witness ==
    \E t \in TaskIds :
        /\ CreateChannelEnded(t)
        /\ task[t].args.categoryId = Str("ADM")
        /\ ChannelsCreated(t) = {1}
        /\ task[t].calls[1].text = "502"
        /\ task[t].result = "Successfully created text channel 'chat' in category 'admin'."

\* C30: a kickUser, banUser or muteUser call issues at most one platform
\* mutation, of its own kind, whether the platform applies it or rejects it:
\* a rejected mutation ends the call with the failure result and is not
\* made again
C30_NoRetry ==
    \A t \in TaskIds :
        LET tk == task[t]
            m == UserMethod(tk.name)
        IN  (ViaExecutor(t) /\ m # "") =>
                /\ Len(tk.calls) <= 1
                /\ \A i \in 1..Len(tk.calls) :
                        tk.calls[i].op \in OpsOf(ToLower(tk.name))
                /\ (Ended(t) /\ tk.calls # <<>> /\ ~tk.env.mutation) =>
                        /\ tk.pc = "done"
                        /\ StartsWith(tk.result, "Error: Failed to ")

\* a kick that the platform rejected: one kick call, and the failure result
C30_Witness ==
    \E t \in TaskIds :
        /\ ViaExecutor(t) /\ Ended(t)
        /\ task[t].name = "kickUser"
        /\ ~task[t].env.mutation
        /\ Len(task[t].calls) = 1
        /\ task[t].calls[1].op = "kick"
        /\ task[t].result = "Error: Failed to kick alice."

(***************************************************************************)
(* MessageHandler.detectModerationCommand over sampled texts.              *)
(***************************************************************************)
\* detectModerationCommand applied to one text; the answer is kept as the
\* flag the handler passes to generateResponse
DetectText(t, text) ==
    /\ task[t].pc = "idle"
    /\ task[t].hpc = ""
    /\ task' = [task EXCEPT ![t] =
            [IdleTask EXCEPT !.op = "detectModerationCommand", !.pc = "done",
                             !.query = text,
                             !.ai.tools = DetectModerationCommand(text)]]
    /\ UNCHANGED <<settings, disk, now, hist, tfail>>

\* keywords as written and in capitals, and words that are no keyword
DetectWords ==
    ModerationKeywords
        \cup {"BAN", "Kick", "MuTe", "SERVER", "Delete", "CREATE", "Manage",
              "hello", "poll", "kic k", "b-an", "mut", "purg", ""}

DetectTexts ==
    {lead \o word \o trail :
        lead \in {"", "I want to ", "un"},
        word \in DetectWords,
        trail \in {"", " someone", "ana split"}}

NextDetect ==
    \/ \E text \in DetectTexts : DetectText(1, text)
    \/ Settled(1)

SpecDetect == InitHandler /\ [][NextDetect]_vars

(***************************************************************************)
(* Claims about the administrative keywords.                               *)
(***************************************************************************)
Detecting(t) == task[t].op = "detectModerationCommand" /\ task[t].pc = "done"

\* the keywords the specification lists
ListedKeywords ==
    {"kick", "ban", "mute", "timeout", "remove", "moderate", "admin", "channel",
     "category", "message", "embed", "server", "purge", "setup"}

\* some word of ws occurs in s, letter case apart
ContainsAny(s, ws) ==
    \E w \in ws :
        \E i \in 1..Len(s) :
            /\ i + Len(w) - 1 <= Len(s)
            /\ ToLower(SubSeq(s, i, i + Len(w) - 1)) = w

\* C31, as claimed: detectModerationCommand answers true for a text that
\* contains one of the fourteen listed keywords, letter case apart and as a
\* substring, and false for a text that contains none of them
C31_ListedKeywordsOnly ==
    \A t \in TaskIds :
        Detecting(t) =>
            (task[t].ai.tools <=> ContainsAny(task[t].query, ListedKeywords))

\* C31, amended: true for a text that contains one of the listed keywords,
\* and false exactly for the texts that contain neither a listed keyword nor
\* create, delete, manage or moderation
C31_KeywordsOfTheList ==
    \A t \in TaskIds :
        Detecting(t) =>
            /\ ContainsAny(task[t].query, ListedKeywords) => task[t].ai.tools
            /\ task[t].ai.tools <=>
                    ContainsAny(task[t].query,
                                ListedKeywords
                                    \cup {"create", "delete", "manage",
                                          "moderation"})

\* "banana split" has been taken for an administrative text
C31_Witness ==
    \E t \in TaskIds :
        /\ Detecting(t)
        /\ task[t].query = "banana split"
        /\ task[t].ai.tools

(***************************************************************************)
(* FunctionParser.parseFunctionCall over calls written out from their      *)
(* parts: a name, one or two key: value pairs, with or without braces.     *)
(***************************************************************************)
\* key: "value" or key: value
WrittenPair(p) ==
    p.key \o ": " \o (IF p.quoted THEN "\"" \o p.value \o "\"" ELSE p.value)

\* the pairs joined by the separator
WrittenPairs(w) ==
    IF Len(w.pairs) = 1 THEN WrittenPair(w.pairs[1])
    ELSE WrittenPair(w.pairs[1]) \o w.sep \o WrittenPair(w.pairs[2])

\* name(pairs) or name({pairs}), pad being what is written inside the
\* delimiters around the pairs
Render(w) ==
    w.name \o "(" \o (IF w.braces THEN "{" ELSE "") \o w.pad \o WrittenPairs(w)
        \o w.pad \o (IF w.braces THEN "}" ELSE "") \o ")"

WrittenValues ==
    {[quoted |-> TRUE, value |-> "11"], [quoted |-> TRUE, value |-> "being rude"],
     [quoted |-> TRUE, value |-> ""], [quoted |-> FALSE, value |-> "11"],
     [quoted |-> FALSE, value |-> "bob smith"]}

PairsWritten ==
    {<<[key |-> "userId", quoted |-> u.quoted, value |-> u.value]>> :
        u \in WrittenValues}
    \cup {<<[key |-> "userId", quoted |-> u.quoted, value |-> u.value],
            [key |-> "reason", quoted |-> r.quoted, value |-> r.value]>> :
            u \in WrittenValues, r \in WrittenValues}

WrittenCalls ==
    [name : {"kickUser", "BanUser"}, braces : BOOLEAN, pad : {"", " "},
     sep : {", ", ","}, pairs : PairsWritten]

NextWritten ==
    \/ \E w \in WrittenCalls : ParseText(1, Render(w))
    \/ Settled(1)

SpecWritten == InitHandler /\ [][NextWritten]_vars

\* the argument map with exactly the written keys, each on its written value
WrittenArgs(w) ==
    [k \in DOMAIN NoArgs |->
        IF \E i \in 1..Len(w.pairs) : w.pairs[i].key = k
        THEN Str(w.pairs[CHOOSE i \in 1..Len(w.pairs) : w.pairs[i].key = k].value)
        ELSE Undefined]

\* C32, as claimed: a call written as name(key: "value", key2: value2), with
\* or without braces, is parsed to a call of that name whose arguments are
\* exactly the written keys, a quoted value giving the text between the
\* quotes and an unquoted one its trimmed text
C32_WrittenPairsParsed ==
    \A t \in TaskIds :
        Parsing(t) =>
            \A w \in WrittenCalls :
                task[t].query = Render(w) =>
                    /\ task[t].parsed.matched
                    /\ task[t].parsed.name = w.name
                    /\ task[t].parsed.args = WrittenArgs(w)

(***************************************************************************)
(* Claims about warnings that overlap.                                     *)
(***************************************************************************)
\* C33, as claimed: with warnUser operations on one (guild, user) overlapping
\* in any way, a timeout is issued only by the operation whose own increment
\* brought the count to the threshold, and the reset after a timeout erases
\* no warning that was counted while the timeout was in flight: the count it
\* resets is the one its own operation produced
C33_OneTimeoutPerThreshold ==
    /\ [](\A t \in TaskIds :
            (task[t].svc.method = "warnUser" /\ task[t].calls # <<>>) =>
                task[t].yielded >= 3)
    /\ [][\A t \in TaskIds :
            (task[t].pc = "warn_timeout" /\ task'[t].pc = "warn_resave") =>
                settings[task[t].guild].warnings[task[t].user].count =
                    task[t].yielded]_vars

\* C34, as claimed: the count a warnUser result reports ("This is warning
\* <count>/3") is the value that the operation's own increment produced,
\* whatever other warnUser operations on the same (guild, user) overlap it
C34_OwnCountReported ==
    \A t \in TaskIds :
        (WarnCompleted(t) /\ StartsWith(task[t].result, "Warning issued to ")
            /\ task[t].calls = <<>>) =>
                task[t].result =
                    "Warning issued to " \o Username(task[t].user) \o ": "
                        \o task[t].reason \o ". This is warning "
                        \o ToString(task[t].yielded) \o "/3."

(***************************************************************************)
(* The startup load.  The constructor calls loadSettings without awaiting  *)
(* it: the second invocation is the load, the first one the operations     *)
(* that arrive while it is in flight and after it.                         *)
(***************************************************************************)
\* what settings.json may hold at startup: nothing, or guild 100 with the
\* filter on and two warnings for user 11
StoredDocuments ==
    {NoDocument,
     [SetEnabled(NoDocument, "100", TRUE) EXCEPT
        !["100"].warnings["11"] = [present |-> TRUE, count |-> 2, lastWarning |-> 0]]}

\* Object.entries(settings).forEach(([guildId, setting]) =>
\*     this.settings.set(guildId, setting))
Loaded(store, file) ==
    [g \in Guilds |-> IF file[g].present THEN file[g] ELSE store[g]]

\* the state the constructor leaves: an empty map, loadSettings at its await
\* of readFile
InitStartup ==
    /\ disk \in StoredDocuments
    /\ settings = NoDocument
    /\ now = 0
    /\ task = [t \in TaskIds |->
                IF t = 2 THEN [IdleTask EXCEPT !.op = "loadSettings",
                                               !.pc = "load_read"]
                ELSE IdleTask]
    /\ hist = [g \in Guilds |-> [u \in Users |-> NoHistory]]
    /\ tfail = [g \in Guilds |-> [u \in Users |-> FALSE]]

\* the file is read: its text is what the file holds at that moment; exists
\* tells whether there was a file to read
LoadRead(t, exists) ==
    /\ task[t].pc = "load_read"
    /\ ~exists => disk = NoDocument
    /\ task' = [task EXCEPT ![t] =
            IF exists THEN Snapshot([@ EXCEPT !.pc = "load_apply"], disk)
            ELSE [@ EXCEPT !.pc = "load_mkdir"]]
    /\ UNCHANGED <<settings, disk, now, hist, tfail>>

\* readFile has resolved: every entry of the text is set into the map
LoadApplied(t) ==
    /\ task[t].pc = "load_apply"
    /\ settings' = Loaded(settings, task[t].snap)
    /\ task' = [task EXCEPT ![t] = [@ EXCEPT !.pc = "done"]]
    /\ UNCHANGED <<disk, now, hist, tfail>>

\* the catch: mkdir has resolved, saveSettings is called
LoadDirectoryMade(t) ==
    /\ task[t].pc = "load_mkdir"
    /\ task' = [task EXCEPT ![t] = Snapshot([@ EXCEPT !.pc = "load_save"], settings)]
    /\ UNCHANGED <<settings, disk, now, hist, tfail>>

\* the save of the catch completes
LoadSaved(t) ==
    /\ task[t].pc = "load_save"
    /\ disk' = task[t].snap
    /\ task' = [task EXCEPT ![t] = [@ EXCEPT !.pc = "done"]]
    /\ UNCHANGED <<settings, now, hist, tfail>>

NextStartup ==
    \/ WarnUser(1, "100", "11", "spam", Nominal)
    \/ \E b \in BOOLEAN : SetFilterSettings(1, "100", b, Nominal)
    \/ LedgerStep(1)
    \/ \E exists \in BOOLEAN : LoadRead(2, exists)
    \/ LoadApplied(2)
    \/ LoadDirectoryMade(2)
    \/ LoadSaved(2)

SpecStartup == InitStartup /\ [][NextStartup]_vars

\* C35, as claimed: when the startup load sets what it read into the map,
\* with no operation in flight, every entry the map already holds (recorded
\* by operations that have completed) is left as it is
C35_LoadKeepsRecorded ==
    [][\A t \in TaskIds :
          (/\ task[t].pc = "load_apply" /\ task'[t].pc = "done"
           /\ \A o \in TaskIds \ {t} : task[o].pc \in {"idle", "done", "threw"}) =>
              \A g \in Guilds :
                  settings[g].present => settings'[g] = settings[g]]_vars

(***************************************************************************)
(* Further claims about the handler.                                       *)
(***************************************************************************)
\* C36: a message written by a bot account is ignored whatever it says: with
\* the prefix or with the bot among its mentions, handleMessage returns at
\* once, and no reply, no request to the model, no run of the parser or the
\* executor and no platform call follows from it
C36_BotMessagesIgnored ==
    \A t \in TaskIds :
        (task[t].hpc # "" /\ task[t].msg.bot) =>
            /\ task[t].hpc = "ignored"
            /\ task[t].pc = "idle"
            /\ task[t].delivered = 0 /\ task[t].pending = ""
            /\ task[t].ai.asked = 0
            /\ task[t].route = "" /\ task[t].name = ""
            /\ task[t].calls = <<>>

\* a bot's message that begins with the prefix has been ignored
C36_Witness ==
    \E t \in TaskIds :
        /\ task[t].hpc = "ignored"
        /\ task[t].msg.bot
        /\ task[t].msg.content = "agentic delete 5 messages"
        /\ task[t].delivered = 0

(***************************************************************************)
(* Further claims about the ledger.                                        *)
(***************************************************************************)
FilterEnabledSet(t) ==
    task[t].pc = "filter_admin" /\ task'[t].pc = "filter_save"

\* C37: setFilterEnabled changes only the enabled flag of the guild it is
\* called for: the flag takes the value given, the warnings of that guild and
\* the settings of every other guild stay as they were, a second call with the
\* value the guild already has changes nothing, no other step of
\* setFilterSettings touches the settings, and its save writes the map as it is
C37_OnlyEnabledFlagChanges ==
    [][\A t \in TaskIds :
        LET g == task[t].guild
        IN  /\ FilterEnabledSet(t) =>
                /\ settings'[g].present
                /\ settings'[g].enabled = task[t].enabled
                /\ settings'[g].warnings = settings[g].warnings
                /\ \A h \in Guilds \ {g} : settings'[h] = settings[h]
                /\ (settings[g].present /\ settings[g].enabled = task[t].enabled)
                        => settings' = settings
            /\ (task[t].svc.method = "setFilterSettings" /\ ~FilterEnabledSet(t))
                        => settings' = settings
            /\ (task[t].pc = "filter_save" /\ task'[t].pc = "done")
                        => disk' = settings /\ settings' = settings]_vars

\* the flag of a guild with a counted warning has been set, to the value it
\* had, while nothing is stored for the other guild
C37_Witness ==
    \E t \in TaskIds :
        /\ task[t].pc = "filter_save"
        /\ task[t].guild = "100"
        /\ task[t].enabled
        /\ settings["100"].enabled
        /\ settings["100"].warnings["11"].count = 2
        /\ disk["100"].warnings["11"].count = 2
        /\ ~settings["200"].present

PreconditionErrors ==
    {"Error: I cannot find this server.",
     "Error: Server settings not found.",
     "Error: User not found."}

WarnRefused(t) ==
    /\ task[t].svc.method = "warnUser"
    /\ task[t].pc = "done"
    /\ task[t].result \in PreconditionErrors

\* C38: a warnUser that ends on a failed precondition (no settings for the
\* guild, the guild not in the cache, the member not fetched) has, on every
\* step from its call to its return, left the settings of every guild and the
\* file as they were, and has made no call to the platform
C38_RefusedWarnChangesNothing ==
    /\ [](\A t \in TaskIds : WarnRefused(t) => task[t].calls = <<>>)
    /\ [][\A t \in TaskIds :
            (task[t].pc \in {"idle", "warn_fetch"} /\ WarnRefused(t)')
                => settings' = settings /\ disk' = disk]_vars
    /\ [][\A t \in TaskIds :
            (task[t].pc = "idle" /\ task'[t].pc = "warn_fetch")
                => settings' = settings /\ disk' = disk]_vars

\* a warnUser for a member that could not be fetched has returned its error,
\* with a warning of another member on record
C38_Witness ==
    \E t \in TaskIds :
        /\ WarnRefused(t)
        /\ task[t].result = "Error: User not found."
        /\ task[t].user = "22"
        /\ ~settings["100"].warnings["22"].present
        /\ settings["100"].warnings["11"].count = 1

(***************************************************************************)
(* The catalog of actions and the branches of the executor.                *)
(***************************************************************************)
\* the names moderationTools declares, serverManagementTools included, in
\* lower case
DeclaredActions ==
    {ToLower(ModerationTools[i]) : i \in DOMAIN ModerationTools}

UnknownFunction(name) == "Error: Unknown function '" \o name \o "'."

\* the invocation got as far as the switch on the name
DispatchReached(t) ==
    /\ ViaExecutor(t)
    /\ task[t].inGuild
    /\ ~PreResolve(task[t].env, task[t].args.userId).done

\* C39: the executor's switch and the declared actions name the same set: an
\* invocation that reaches the switch with a declared name, in any letter
\* case, runs a branch and never ends as an unknown function, and one that
\* reaches it with any other name ends as an unknown function with no service
\* method run and no platform call
C39_DispatchMatchesCatalog ==
    \A t \in TaskIds :
        (DispatchReached(t) /\ Ended(t)) =>
            LET unknown == /\ task[t].pc = "done"
                           /\ task[t].result = UnknownFunction(task[t].name)
            IN  IF ToLower(task[t].name) \in DeclaredActions
                THEN ~unknown
                ELSE unknown /\ task[t].calls = <<>> /\ task[t].svc.method = ""

\* the last declared action has run its branch and called the platform
C39_Witness ==
    \E t \in TaskIds :
        /\ DispatchReached(t) /\ Ended(t)
        /\ task[t].name = "createEmbed"
        /\ task[t].svc.method = "createEmbed"
        /\ task[t].calls # <<>>

====
